---- MODULE Spec2Model ----
(***************************************************************************)
(* Model of the CYBERBOARD configuration merger                            *)
(* (src/src/cyberboard_merger): the LED data model and LEDMerger           *)
(* (models/led_data.py), the configuration validator                       *)
(* (utils/validators.py) and the mapping workflow (core/merger.py,          *)
(* main.py, core/file_handler.py).                                         *)
(*                                                                         *)
(* Python dicts are records.  The frame dicts are the only objects the     *)
(* code shares between pages and writes through a second reference         *)
(* (combine_pages, lines 130 and 134), so they live in a heap, frame_objs, *)
(* and a page object holds references into it.  A frame_RGB list is never  *)
(* written by any statement of the repository, so a frame holds the name   *)
(* of its list and RGB(name) is the list.                                  *)
(***************************************************************************)
EXTENDS Integers, Sequences, FiniteSets, TLC

VARIABLES
    frame_objs,   \* heap of frame dicts: frame_objs[ref] = [frame_index, frame_RGB]
    page_objs,    \* LEDPage objects: page_objs[ref] = page_data, frame_data lists hold refs
    call,         \* the last LEDMerger.combine_pages call and what it returned
    config_data,  \* the parsed document handed to the validator
    errors,       \* what validate_configuration returned for it (None before the call)
    \* the application (CyberboardMergerApp.run and its ConfigurationMerger)
    pc,                     \* the prompt run() is blocked at, or "done"
    disk,                   \* the source directory: file name -> what the file holds
    files,                  \* the list get_available_files returned for the open prompt
    base_config,            \* ConfigurationMerger.base_config
    mappings,               \* ConfigurationMerger.mappings
    led_num,                \* configure_all_mappings: the slot being configured
    current_page,           \* configure_led_mapping: current_page
    current_frames,         \* configure_led_mapping: current_frames
    combined_sources,       \* configure_led_mapping: combined_sources
    select_for,             \* the caller of _select_source_led: "replace" or "add"
    max_additional_frames,  \* _select_source_led: max_additional_frames
    selected_file,          \* _select_source_led: selected_file, kept for one step after it returned
    source_config,          \* _select_source_led: source_config
    valid_choices,          \* _select_source_led: valid_choices
    summary_result,         \* run: summary_result, kept while run() saves and for one step
                            \* after run() went back to its loops
    led_config_completed,   \* run: led_config_completed
    merged_config,          \* run: merged_config
    written,                \* the files FileHandler.save_configuration has written
    shown,                  \* the warning or error displayed by the last step ("" if none)
    result,                 \* what run() returned (None while it runs)
    validated,              \* the documents ConfigurationValidator was run on
    selections,             \* source LEDs selected so far in the session
    base_file,              \* select_base_configuration: selected_file, the file answered at
                            \* the base prompt (the program itself does not keep it)
    resolved,               \* the slots whose stored mapping was stored since base_config
                            \* was last assigned (history; the program does not keep it)
    model                   \* the LEDFrame / LEDPage objects at hand and the last call made
                            \* on the data model

combine_vars == <<frame_objs, page_objs, call>>

validate_vars == <<config_data, errors>>

slot_vars == <<led_num, current_page, current_frames, combined_sources>>

select_vars == <<select_for, max_additional_frames, selected_file, source_config, valid_choices>>

app_vars ==
    <<pc, disk, files, base_config, mappings, slot_vars, select_vars, summary_result,
      led_config_completed, merged_config, written, shown, result, validated, selections,
      base_file, resolved>>

model_vars == <<model>>

vars == <<combine_vars, validate_vars, app_vars, model_vars>>

-----------------------------------------------------------------------------
(* Bounds of the model *)

\* frames in one frame_data list of an input page
MaxFrameCount == 2
\* length of the list handed to combine_pages
MaxListLen == 3

-----------------------------------------------------------------------------
(* Values *)

\* Optional values (Python None): the empty sequence, or a one-element sequence
None == <<>>
Some(x) == <<x>>

\* A dict is a function on its keys; d.get(k, default)
Get(d, k, default) == IF k \in DOMAIN d THEN d[k] ELSE default

\* the dict {}
EmptyDict == <<>>

\* d[k] = v on a dict, adding the key when it is absent
Put(d, k, v) == (k :> v) @@ d

LED_GRID_SIZE == 200

\* the frame_RGB list a name stands for: 40x5 colour strings
RGB(name) ==
    CASE name = "short"    -> [i \in 1..(LED_GRID_SIZE - 1) |-> "#FF0000"]
      [] name = "sentinel" -> [i \in 1..LED_GRID_SIZE |-> "none"]
      [] name = "latebad"  -> [i \in 1..LED_GRID_SIZE |-> IF i = 150 THEN "#GGGGGG" ELSE "#FF0000"]
      [] OTHER             -> [i \in 1..LED_GRID_SIZE |-> name]

\* a frame dict as json.load builds it
MkFrame(index, rgb) == [frame_index |-> index, frame_RGB |-> rgb]

\* a "frames" / "keyframes" dict whose frames are numbered from 0
MkFrames(valid, rgbs) ==
    [valid |-> valid, frame_num |-> Len(rgbs),
     frame_data |-> [i \in 1..Len(rgbs) |-> MkFrame(i - 1, rgbs[i])]]

\* a page dict
MkPage(index, fvalid, frgbs, kvalid, krgbs) ==
    [page_index |-> index, valid |-> 1,
     frames |-> MkFrames(fvalid, frgbs), keyframes |-> MkFrames(kvalid, krgbs)]

\* no combine_pages call has been made
NoCall ==
    [done |-> FALSE, raised |-> FALSE, changed |-> FALSE, pages |-> <<>>, combined |-> 0,
     pre_frame_objs |-> <<>>, pre_page_objs |-> <<>>]

\* the parts of the state a specification does not use
IdleCombine ==
    /\ frame_objs = <<>>
    /\ page_objs = <<>>
    /\ call = NoCall

IdleValidate ==
    /\ config_data = EmptyDict
    /\ errors = None

IdleApp ==
    /\ pc = "idle"
    /\ disk = EmptyDict
    /\ files = {}
    /\ base_config = None
    /\ mappings = EmptyDict
    /\ led_num = 0
    /\ current_page = None
    /\ current_frames = 0
    /\ combined_sources = <<>>
    /\ select_for = ""
    /\ max_additional_frames = 0
    /\ selected_file = None
    /\ source_config = None
    /\ valid_choices = {}
    /\ summary_result = None
    /\ led_config_completed = FALSE
    /\ merged_config = None
    /\ written = {}
    /\ shown = ""
    /\ result = None
    /\ validated = {}
    /\ selections = 0
    /\ base_file = None
    /\ resolved = {}

\* no object of the data model is at hand and no call has been made: page and
\* frame are refs into page_objs and frame_objs (0: none), frames is the list
\* get_frames returned, result what get_page returned, calls counts the calls
NoModel ==
    [op |-> "", page |-> 0, frame |-> 0, frames |-> <<>>, index |-> 0, result |-> None,
     raised |-> FALSE, calls |-> 0]

IdleModel == model = NoModel

-----------------------------------------------------------------------------
(* models/led_data.py: objects *)

\* the refs a page object holds (the pages of the model carry both lists)
PageRefs(page_data) ==
    {page_data.frames.frame_data[i] : i \in DOMAIN page_data.frames.frame_data}
        \cup {page_data.keyframes.frame_data[i] : i \in DOMAIN page_data.keyframes.frame_data}

\* the page dict an object stands for: every ref replaced by the frame dict it names
PageValue(H, page_data) ==
    [page_data EXCEPT
        !.frames.frame_data = [i \in DOMAIN @ |-> H[@[i]]],
        !.keyframes.frame_data = [i \in DOMAIN @ |-> H[@[i]]]]

\* LEDPage.__init__ on a freshly parsed page dict: copy.deepcopy allocates every
\* frame dict anew
LEDPage(H, page_value) ==
    LET fl == page_value.frames.frame_data
        kl == page_value.keyframes.frame_data
        n  == Len(H)
    IN  [frame_objs |-> H \o fl \o kl,
         page |-> [page_value EXCEPT
                      !.frames.frame_data = [i \in DOMAIN fl |-> n + i],
                      !.keyframes.frame_data = [i \in DOMAIN kl |-> n + Len(fl) + i]]]

\* copy.deepcopy of a page object: one fresh frame dict per frame dict reachable
\* from it, sharing inside the page kept (deepcopy's memo)
deepcopy(H, page_data) ==
    LET R == PageRefs(page_data)
        n == Len(H)
        rank(r) == Cardinality({s \in R : s <= r})
        old(k) == CHOOSE r \in R : rank(r) = k
    IN  [frame_objs |-> H \o [k \in 1..Cardinality(R) |-> H[old(k)]],
         page |-> [page_data EXCEPT
                      !.frames.frame_data = [i \in DOMAIN @ |-> n + rank(@[i])],
                      !.keyframes.frame_data = [i \in DOMAIN @ |-> n + rank(@[i])]]]

\* LEDPage.get_frames: the frame dicts of 'frames', or of 'keyframes' when
\* frames.valid == 0; LEDFrame wraps the dict itself, not a copy
frames_data(page_data) ==
    IF Get(Get(page_data, "frames", EmptyDict), "valid", 0) = 0
    THEN Get(page_data, "keyframes", EmptyDict)
    ELSE Get(page_data, "frames", EmptyDict)

get_frames(page_data) == Get(frames_data(page_data), "frame_data", <<>>)

get_frame_count(page_data) == Len(get_frames(page_data))

\* LEDConfiguration.page_count
page_count(config) == Get(config, "page_num", 8)

\* LEDConfiguration.get_page(index): a new LEDPage holding a deep copy of the
\* page dict, or None
get_page(config, index) ==
    LET page_data_list == Get(config, "page_data", <<>>)
    IN  IF 0 <= index /\ index < Len(page_data_list)
        THEN Some(page_data_list[index + 1])
        ELSE None

\* LEDConfiguration.get_custom_led_pages(): the pages 5, 6, 7 that exist
RECURSIVE custom_led_pages_from(_, _)
custom_led_pages_from(config, i) ==
    IF i >= 8 THEN <<>>
    ELSE get_page(config, i) \o custom_led_pages_from(config, i + 1)

get_custom_led_pages(config) == custom_led_pages_from(config, 5)

\* LEDPage.set_page_index(index)
set_page_index(page_data, index) == Put(page_data, "page_index", index)

\* set_page storing the page one position too low
set_page_OneTooLow(config, index, page_data) ==
    IF 0 <= index /\ index < Len(Get(config, "page_data", <<>>))
    THEN [config |-> [config EXCEPT !.page_data[index] = set_page_index(page_data, index)],
          page |-> set_page_index(page_data, index)]
    ELSE [config |-> config, page |-> page_data]

\* LEDConfiguration.set_page(index, page): the document and the page object
\* after the call (the page object is stamped, and its dict is the document's
\* entry from then on)
set_page(config, index, page_data) ==
    IF 0 <= index /\ index < Len(Get(config, "page_data", <<>>))
    THEN [config |-> [config EXCEPT !.page_data[index + 1] = set_page_index(page_data, index)],
          page |-> set_page_index(page_data, index)]
    ELSE [config |-> config, page |-> page_data]

\* LEDPage(page_value) for each page dict of a list, from position k: every
\* page becomes an object of its own
RECURSIVE AsObjects(_, _, _, _)
AsObjects(H, P, page_values, k) ==
    IF k > Len(page_values) THEN [frame_objs |-> H, page_objs |-> P]
    ELSE LET o == LEDPage(H, page_values[k])
         IN  AsObjects(o.frame_objs, Append(P, o.page), page_values, k + 1)

-----------------------------------------------------------------------------
(* models/led_data.py: LEDMerger.combine_pages *)

\* frames_key that always stores the combined list under 'frames'
frames_key_Frames(page_data) == "frames"

\* line 119: the key the combined list is stored under, from the first page
frames_key(page_data) ==
    IF Get(Get(page_data, "frames", EmptyDict), "valid", 0) = 1 THEN "frames" ELSE "keyframes"

\* lines 124-130: the frame dicts of the remaining pages, appended by reference
RECURSIVE extend_frames(_, _, _)
extend_frames(P, pages, k) ==
    IF k > Len(pages) THEN <<>>
    ELSE Get(frames_data(P[pages[k]]), "frame_data", <<>>) \o extend_frames(P, pages, k + 1)

\* renumbering that also blanks the colours of the frames it numbers
renumber_BlankingRGB(H, frame_list) ==
    [r \in DOMAIN H |->
        LET at == {i \in DOMAIN frame_list : frame_list[i] = r}
        IN  IF at = {} THEN H[r]
            ELSE [frame_index |-> (CHOOSE i \in at : \A j \in at : j <= i) - 1,
                  frame_RGB |-> "#000000"]]

\* lines 133-134: frame['frame_index'] = idx, in list order (a dict that is in
\* the list twice keeps the index of its last position)
renumber(H, frame_list) ==
    [r \in DOMAIN H |->
        LET at == {i \in DOMAIN frame_list : frame_list[i] = r}
        IN  IF at = {} THEN H[r]
            ELSE [H[r] EXCEPT !.frame_index = (CHOOSE i \in at : \A j \in at : j <= i) - 1]]

\* combine_pages without lines 112-113: an empty list yields an empty page
combine_pages_EmptyPage(H, P, pages) ==
    IF pages = <<>>
    THEN [raised |-> FALSE, frame_objs |-> H,
          page_objs |-> Append(P, MkPage(0, 0, <<>>, 0, <<>>)), combined |-> Len(P) + 1]
    ELSE
        LET copy == deepcopy(H, P[pages[1]])
            combined == copy.page
            key == frames_key(combined)
            combined_frames == Get(combined, key, EmptyDict)
            combined_frame_list ==
                Get(combined_frames, "frame_data", <<>>) \o extend_frames(P, pages, 2)
            new_frames ==
                Put(Put(combined_frames, "frame_data", combined_frame_list),
                    "frame_num", Len(combined_frame_list))
        IN  [raised |-> FALSE,
             frame_objs |-> renumber(copy.frame_objs, combined_frame_list),
             page_objs |-> Append(P, Put(combined, key, new_frames)),
             combined |-> Len(P) + 1]

\* combine_pages(pages) on heap H and page objects P; pages is a list of refs
\* into P.  The combined page becomes a new page object.
combine_pages(H, P, pages) ==
    IF pages = <<>>
    THEN [raised |-> TRUE, frame_objs |-> H, page_objs |-> P, combined |-> 0]
    ELSE
        LET copy == deepcopy(H, P[pages[1]])
            combined == copy.page
            key == frames_key(combined)
            combined_frames == Get(combined, key, EmptyDict)
            combined_frame_list ==
                Get(combined_frames, "frame_data", <<>>) \o extend_frames(P, pages, 2)
            new_frames ==
                Put(Put(combined_frames, "frame_data", combined_frame_list),
                    "frame_num", Len(combined_frame_list))
        IN  [raised |-> FALSE,
             frame_objs |-> renumber(copy.frame_objs, combined_frame_list),
             page_objs |-> Append(P, Put(combined, key, new_frames)),
             combined |-> Len(P) + 1]

-----------------------------------------------------------------------------
(* utils/validators.py: ConfigurationValidator *)

REQUIRED_ROOT_KEYS == <<"product_info", "page_num", "page_data">>
REQUIRED_PRODUCT_KEYS == <<"product_id">>
EXPECTED_PAGE_COUNT == 8

\* the strings RGB_COLOR_PATTERN (^#[0-9A-Fa-f]{6}$) matches, among the colour
\* strings of the model
RGB_COLOR_PATTERN ==
    {"#FF0000", "#00FF00", "#A00000", "#A00001", "#A00002", "#A00003",
     "#B00000", "#B00001", "#B00002", "#B00003", "#0000A0", "#0000B0",
     "#C00000", "#C00001", "#C00002", "#C00003", "#0000C0"}

\* An error message.  path is the "Page i: " / "Frame j: " prefixes the callers
\* put in front of it, msg the text, args the numbers and text the string
\* formatted into it.
Err(msg, args, text) == [path |-> <<>>, msg |-> msg, args |-> args, text |-> text]

\* [f"Page {i}: {error}" for error in errs], and the same for "Frame {i}: "
Prefixed(i, errs) == [k \in DOMAIN errs |-> [errs[k] EXCEPT !.path = <<i>> \o @]]

\* for required_key in keys: if required_key not in d: errors.append(...)
RECURSIVE MissingKeys(_, _, _, _)
MissingKeys(d, keys, msg, k) ==
    IF k > Len(keys) THEN <<>>
    ELSE (IF keys[k] \in DOMAIN d THEN <<>> ELSE <<Err(msg, <<>>, keys[k])>>)
             \o MissingKeys(d, keys, msg, k + 1)

\* the frame_RGB list of a frame dict: frame.get('frame_RGB', [])
rgb_values(frame) ==
    IF "frame_RGB" \in DOMAIN frame THEN RGB(frame.frame_RGB) ELSE <<>>

\* the loop over rgb_values[:10]: the first colour that is no #RRGGBB string
\* is reported and the loop ends
ColorErrors(rgb) ==
    LET checked == 1..(IF Len(rgb) < 10 THEN Len(rgb) ELSE 10)
        bad == {i \in checked : rgb[i] \notin RGB_COLOR_PATTERN}
    IN  IF bad = {} THEN <<>>
        ELSE LET i == CHOOSE b \in bad : \A c \in bad : b <= c
             IN  <<Err("Invalid RGB color format at index", <<i - 1>>, rgb[i])>>

validate_single_frame_NoLength(frame, frame_index) ==
    (IF "frame_index" \notin DOMAIN frame
     THEN <<Err("Missing 'frame_index'", <<>>, "")>>
     ELSE IF frame.frame_index # frame_index
          THEN <<Err("Frame index mismatch", <<frame_index, frame.frame_index>>, "")>>
          ELSE <<>>)
    \o ColorErrors(rgb_values(frame))

\* _validate_single_frame(frame, frame_index)
validate_single_frame(frame, frame_index) ==
    (IF "frame_index" \notin DOMAIN frame
     THEN <<Err("Missing 'frame_index'", <<>>, "")>>
     ELSE IF frame.frame_index # frame_index
          THEN <<Err("Frame index mismatch", <<frame_index, frame.frame_index>>, "")>>
          ELSE <<>>)
    \o (IF Len(rgb_values(frame)) # LED_GRID_SIZE
        THEN <<Err("Expected RGB values", <<LED_GRID_SIZE, Len(rgb_values(frame))>>, "")>>
        ELSE <<>>)
    \o ColorErrors(rgb_values(frame))

\* the loop of _validate_frame_data over frame_list, from position k
RECURSIVE FrameListErrors(_, _)
FrameListErrors(frame_list, k) ==
    IF k > Len(frame_list) THEN <<>>
    ELSE Prefixed(k - 1, validate_single_frame(frame_list[k], k - 1))
             \o FrameListErrors(frame_list, k + 1)

\* _validate_frame_data(frame_data)
validate_frame_data(frame_data) ==
    LET frame_list == Get(frame_data, "frame_data", <<>>)
        frame_num == Get(frame_data, "frame_num", 0)
    IN  (IF Len(frame_list) # frame_num
         THEN <<Err("Frame count mismatch", <<frame_num, Len(frame_list)>>, "")>>
         ELSE <<>>)
        \o FrameListErrors(frame_list, 1)

\* _validate_led_page(page)
validate_led_page(page) ==
    LET frames == Get(page, "frames", EmptyDict)
        keyframes == Get(page, "keyframes", EmptyDict)
    IN  IF Get(frames, "valid", 0) = 1 THEN validate_frame_data(frames)
        ELSE IF Get(keyframes, "valid", 0) = 1 THEN validate_frame_data(keyframes)
        ELSE <<Err("No valid frame data found", <<>>, "")>>

\* _validate_single_page(page, page_index)
validate_single_page(page, page_index) ==
    (IF "page_index" \notin DOMAIN page
     THEN <<Err("Missing 'page_index'", <<>>, "")>>
     ELSE IF page.page_index # page_index
          THEN <<Err("Page index mismatch", <<page_index, page.page_index>>, "")>>
          ELSE <<>>)
    \o (IF page_index >= 5 THEN validate_led_page(page) ELSE <<>>)

\* the loop of _validate_page_data over the pages, from position k
RECURSIVE PageListErrors(_, _)
PageListErrors(page_data, k) ==
    IF k > Len(page_data) THEN <<>>
    ELSE Prefixed(k - 1, validate_single_page(page_data[k], k - 1))
             \o PageListErrors(page_data, k + 1)

\* _validate_page_data(page_data)
validate_page_data(page_data) ==
    IF Len(page_data) # EXPECTED_PAGE_COUNT
    THEN <<Err("Expected page entries", <<EXPECTED_PAGE_COUNT, Len(page_data)>>, "")>>
    ELSE PageListErrors(page_data, 1)

\* _validate_product_info(product_info)
validate_product_info(product_info) ==
    MissingKeys(product_info, REQUIRED_PRODUCT_KEYS, "Missing product info key", 1)

\* _validate_root_structure(config_data); page_num is None when the key is absent
validate_root_structure(config) ==
    LET page_num == IF "page_num" \in DOMAIN config THEN Some(config.page_num) ELSE None
    IN  MissingKeys(config, REQUIRED_ROOT_KEYS, "Missing required key", 1)
        \o (IF page_num # Some(EXPECTED_PAGE_COUNT)
            THEN <<Err("Expected pages", <<EXPECTED_PAGE_COUNT>> \o page_num, "")>>
            ELSE <<>>)

\* validate_configuration(config_data)
validate_configuration(config) ==
    LET root == validate_root_structure(config)
    IN  IF root = <<>>
        THEN validate_product_info(Get(config, "product_info", EmptyDict))
                 \o validate_page_data(Get(config, "page_data", <<>>))
        ELSE root

-----------------------------------------------------------------------------
(* SpecCombine: LEDMerger.combine_pages called on page objects *)

\* colours of the frames of the input pages: one row per page object
Palette ==
    << <<"#A00000", "#A00001", "#A00002", "#A00003">>,
       <<"#B00000", "#B00001", "#B00002", "#B00003">> >>

KeyPalette == << <<"#0000A0">>, <<"#0000B0">> >>

\* values of a 'valid' flag a loaded file can hold (the format says 0 or 1;
\* nothing checks it on load)
ValidFlags == {0, 1, 2}

InputPage(p, fvalid, nf, kvalid, nk) ==
    MkPage(4 + p, fvalid, SubSeq(Palette[p], 1, nf), kvalid, SubSeq(KeyPalette[p], 1, nk))

InitCombine ==
    /\ \E fv1 \in ValidFlags, fv2 \in ValidFlags, kv1 \in {0, 1}, kv2 \in {0, 1},
          nf1 \in 0..MaxFrameCount, nf2 \in 0..MaxFrameCount, nk1 \in {0, 1}, nk2 \in {0, 1} :
          LET a == LEDPage(<<>>, InputPage(1, fv1, nf1, kv1, nk1))
              b == LEDPage(a.frame_objs, InputPage(2, fv2, nf2, kv2, nk2))
          IN  /\ frame_objs = b.frame_objs
              /\ page_objs = <<a.page, b.page>>
    /\ call = NoCall
    /\ IdleValidate
    /\ IdleApp
    /\ IdleModel

\* the lists of page refs of length n
RECURSIVE PageLists(_)
PageLists(n) ==
    IF n = 0 THEN {<<>>}
    ELSE {Append(l, p) : l \in PageLists(n - 1), p \in DOMAIN page_objs}

\* combined = LEDMerger.combine_pages(pages)
CallCombinePages ==
    /\ ~call.done
    /\ \E n \in 0..MaxListLen : \E pages \in PageLists(n) :
          LET r == combine_pages(frame_objs, page_objs, pages)
          IN  /\ frame_objs' = r.frame_objs
              /\ page_objs' = r.page_objs
              /\ call' = [done |-> TRUE, raised |-> r.raised, changed |-> FALSE,
                          pages |-> pages, combined |-> r.combined,
                          pre_frame_objs |-> frame_objs, pre_page_objs |-> page_objs]
    /\ UNCHANGED <<validate_vars, app_vars, model_vars>>

NewIndexes == {9}

\* combined.get_frames()[k].set_frame_index(v): a later change to the combined page
SetCombinedFrameIndex ==
    /\ call.done /\ ~call.raised /\ ~call.changed
    /\ \E k \in DOMAIN get_frames(page_objs[call.combined]), v \in NewIndexes :
          frame_objs' = [frame_objs EXCEPT
                            ![get_frames(page_objs[call.combined])[k]].frame_index = v]
    /\ call' = [call EXCEPT !.changed = TRUE]
    /\ UNCHANGED <<page_objs, validate_vars, app_vars, model_vars>>

NextCombine == CallCombinePages \/ SetCombinedFrameIndex

SpecCombine == InitCombine /\ [][NextCombine]_vars

-----------------------------------------------------------------------------
(* SpecValidate: ConfigurationValidator.validate_configuration on parsed documents *)

\* a page of an input document: two frames under 'frames', one under 'keyframes'
DocPage(index, fvalid, kvalid) ==
    MkPage(index, fvalid, <<"#C00000", "#C00001">>, kvalid, <<"#0000C0">>)

FaultKinds == {"none", "short", "sentinel", "latebad", "index", "count", "noindex"}

\* page with one fault put into the first frame of its list `key`
Faulty(page, key, kind) ==
    CASE kind = "short"    -> [page EXCEPT ![key].frame_data[1].frame_RGB = "short"]
      [] kind = "sentinel" -> [page EXCEPT ![key].frame_data[1].frame_RGB = "sentinel"]
      [] kind = "latebad"  -> [page EXCEPT ![key].frame_data[1].frame_RGB = "latebad"]
      [] kind = "index"    -> [page EXCEPT ![key].frame_data[1].frame_index = 5]
      [] kind = "count"    -> [page EXCEPT ![key].frame_num = @ + 1]
      [] kind = "noindex"  -> [page EXCEPT ![key].frame_data[1] = [frame_RGB |-> @.frame_RGB]]
      [] OTHER             -> page

\* a document of npages pages declaring page_num, whose pages carry the flags
\* fvalid/kvalid, with a fault of kind `kind` in list `key` of page `fpage`
Document(page_num, npages, fvalid, kvalid, fpage, key, kind) ==
    [product_info |-> [product_id |-> "R4"],
     page_num |-> page_num,
     page_data |-> [i \in 1..npages |->
                       IF i - 1 = fpage
                       THEN Faulty(DocPage(i - 1, fvalid, kvalid), key, kind)
                       ELSE DocPage(i - 1, fvalid, kvalid)]]

\* d without key k
Without(d, k) == [x \in DOMAIN d \ {k} |-> d[x]]

ValidatorInputs ==
    {Document(pn, np, fv, kv, fp, key, kind) :
        pn \in {EXPECTED_PAGE_COUNT - 1, EXPECTED_PAGE_COUNT},
        np \in {EXPECTED_PAGE_COUNT - 1, EXPECTED_PAGE_COUNT},
        fv \in ValidFlags, kv \in {0, 1},
        fp \in 0..(EXPECTED_PAGE_COUNT - 1), key \in {"frames", "keyframes"},
        kind \in FaultKinds}
    \cup {Without(Document(EXPECTED_PAGE_COUNT, EXPECTED_PAGE_COUNT, 1, 0, 5, "frames", kind), k) :
            kind \in {"none", "short"}, k \in {"product_info", "page_num", "page_data"}}
    \cup {[Document(EXPECTED_PAGE_COUNT, EXPECTED_PAGE_COUNT, 1, 0, 5, "frames", kind)
              EXCEPT !.product_info = EmptyDict] : kind \in {"none", "short"}}

InitValidate ==
    /\ config_data \in ValidatorInputs
    /\ errors = None
    /\ IdleCombine
    /\ IdleApp
    /\ IdleModel

\* errors = ConfigurationValidator.validate_configuration(config_data)
Validate ==
    /\ errors = None
    /\ errors' = Some(validate_configuration(config_data))
    /\ UNCHANGED <<config_data, combine_vars, app_vars, model_vars>>

NextValidate == Validate

SpecValidate == InitValidate /\ [][NextValidate]_vars

-----------------------------------------------------------------------------
(* SpecModel: the constructors and accessors of models/led_data.py, called on a
   parsed page dict (page_objs[1], its frame dicts in frame_objs) and on the
   document of an LEDConfiguration (config_data) *)

\* calls made in one run of SpecModel
MaxCalls == 3

\* the page dict handed to LEDPage(...)
InputPageRef == 1

\* the documents an LEDConfiguration holds: page_num and the number of pages
\* are each 7 or 8, or page_num is absent
ModelDocuments ==
    {Document(pn, np, 1, 0, EXPECTED_PAGE_COUNT, "frames", "none") :
        pn \in {EXPECTED_PAGE_COUNT - 1, EXPECTED_PAGE_COUNT},
        np \in {EXPECTED_PAGE_COUNT - 1, EXPECTED_PAGE_COUNT}}
    \cup {Without(Document(EXPECTED_PAGE_COUNT, np, 1, 0, EXPECTED_PAGE_COUNT, "frames", "none"),
                  "page_num") : np \in {EXPECTED_PAGE_COUNT - 1, EXPECTED_PAGE_COUNT}}

\* the indexes get_page and set_page are called with
PageIndexes == (0 - 1)..EXPECTED_PAGE_COUNT

InitModel ==
    /\ \E fv \in ValidFlags, kv \in {0, 1}, nf \in 0..MaxFrameCount, nk \in {0, 1} :
          LET a == LEDPage(<<>>, InputPage(InputPageRef, fv, nf, kv, nk))
          IN  /\ frame_objs = a.frame_objs
              /\ page_objs = <<a.page>>
    /\ call = NoCall
    /\ config_data \in ModelDocuments
    /\ errors = None
    /\ IdleApp
    /\ model = NoModel

\* the record of a call that returned: the handles stay, the rest describes the call
Called(op, index, returned) ==
    [model EXCEPT !.op = op, !.index = index, !.result = returned, !.raised = FALSE,
                  !.calls = @ + 1]

\* page = LEDPage(page_data): the object holds copy.deepcopy(page_data)
NewLEDPage ==
    /\ model.calls < MaxCalls
    /\ model.page = 0
    /\ LET c == deepcopy(frame_objs, page_objs[InputPageRef])
       IN  /\ frame_objs' = c.frame_objs
           /\ page_objs' = Append(page_objs, c.page)
           /\ model' = [Called("LEDPage", 0, None) EXCEPT !.page = Len(page_objs) + 1]
    /\ UNCHANGED <<call, validate_vars, app_vars>>

\* frame = LEDFrame(frame_data) on a frame dict of the input: the object holds
\* the dict itself (self.frame_data = frame_data)
NewLEDFrame ==
    /\ model.calls < MaxCalls
    /\ model.frame = 0
    /\ \E r \in PageRefs(page_objs[InputPageRef]) :
          model' = [Called("LEDFrame", 0, None) EXCEPT !.frame = r]
    /\ UNCHANGED <<combine_vars, validate_vars, app_vars>>

\* frames = page.get_frames()
GetFrames ==
    /\ model.calls < MaxCalls
    /\ model.page # 0
    /\ model' = [Called("get_frames", 0, None) EXCEPT
                    !.frames = get_frames(page_objs[model.page])]
    /\ UNCHANGED <<combine_vars, validate_vars, app_vars>>

\* frames[k].set_frame_index(v) on a frame get_frames returned
SetFrameIndex ==
    /\ model.calls < MaxCalls
    /\ \E k \in DOMAIN model.frames, v \in NewIndexes :
          /\ frame_objs' = [frame_objs EXCEPT ![model.frames[k]].frame_index = v]
          /\ model' = Called("set_frame_index", k, None)
    /\ UNCHANGED <<page_objs, call, validate_vars, app_vars>>

\* page.set_page_index(v)
SetPageIndex ==
    /\ model.calls < MaxCalls
    /\ model.page # 0
    /\ \E v \in NewIndexes :
          /\ page_objs' = [page_objs EXCEPT ![model.page] = set_page_index(@, v)]
          /\ model' = Called("set_page_index", v, None)
    /\ UNCHANGED <<frame_objs, call, validate_vars, app_vars>>

\* the caller changes a frame dict it handed in: frame_data['frame_index'] = v
ChangeInputFrame ==
    /\ model.calls < MaxCalls
    /\ model.page # 0 \/ model.frame # 0
    /\ \E r \in PageRefs(page_objs[InputPageRef]), v \in NewIndexes :
          /\ frame_objs' = [frame_objs EXCEPT ![r].frame_index = v]
          /\ model' = Called("input_changed", r, None)
    /\ UNCHANGED <<page_objs, call, validate_vars, app_vars>>

\* the caller changes the page dict it handed in: page_data['page_index'] = v
ChangeInputPage ==
    /\ model.calls < MaxCalls
    /\ model.page # 0
    /\ \E v \in NewIndexes :
          /\ page_objs' = [page_objs EXCEPT ![InputPageRef].page_index = v]
          /\ model' = Called("input_changed", 0, None)
    /\ UNCHANGED <<frame_objs, call, validate_vars, app_vars>>

\* config.get_page(index): the function has no raise statement
GetPage ==
    /\ model.calls < MaxCalls
    /\ \E index \in PageIndexes :
          model' = Called("get_page", index, get_page(config_data, index))
    /\ UNCHANGED <<combine_vars, validate_vars, app_vars>>

\* config.set_page(index, page) with the LEDPage object at hand: the function
\* has no raise statement; in range it stamps the page and stores its dict
SetPage ==
    /\ model.calls < MaxCalls
    /\ model.page # 0
    /\ \E index \in PageIndexes :
          LET r == set_page(config_data, index, PageValue(frame_objs, page_objs[model.page]))
          IN  /\ config_data' = r.config
              /\ page_objs' = [page_objs EXCEPT ![model.page].page_index = r.page.page_index]
              /\ model' = Called("set_page", index, None)
    /\ UNCHANGED <<frame_objs, call, errors, app_vars>>

NextModel ==
    \/ NewLEDPage \/ NewLEDFrame \/ GetFrames \/ SetFrameIndex \/ SetPageIndex
    \/ ChangeInputFrame \/ ChangeInputPage \/ GetPage \/ SetPage

SpecModel == InitModel /\ [][NextModel]_vars

-----------------------------------------------------------------------------
(* config/settings.py, core/file_handler.py: settings and files *)

\* AppConfig.MAX_FRAMES is 300 (settings.py:15).  The model keeps the code's use
\* of it and scales the number, so that a page of the model can reach, meet and
\* exceed the limit.
MAX_FRAMES == 4
CUSTOM_LED_START_PAGE == 5

\* source LEDs selected in one session
MaxSelections == 1
\* frames of a source LED that exactly fills the capacity LED 1 of a.json leaves
FittingFrameCount == 1
\* frames of LED 1 of a.json
LongFrameCount == MAX_FRAMES - FittingFrameCount
\* frames of a source LED that exceeds the capacity LED 1 of a.json leaves
ExceedingFrameCount == FittingFrameCount + 1

\* n frames of one colour
Uniform(n, rgb) == [i \in 1..n |-> rgb]

\* pages 0-4 of a document: the built-in modes, which carry no frames
BuiltinPages == [i \in 1..CUSTOM_LED_START_PAGE |-> MkPage(i - 1, 1, <<>>, 0, <<>>)]

\* a parsed configuration file
MkDocument(page_num, led_pages) ==
    [product_info |-> [product_id |-> "R4"],
     page_num |-> page_num,
     page_data |-> BuiltinPages \o led_pages]

\* a.json: a well-formed file; LED 2 is stored under 'keyframes', LED 3 holds
\* more frames than the device allows (nothing checks it on load)
DocA ==
    MkDocument(8,
        << MkPage(5, 1, Uniform(LongFrameCount, "#A00000"), 0, <<>>),
           MkPage(6, 0, <<>>, 1, Uniform(2, "#0000A0")),
           MkPage(7, 1, Uniform(MAX_FRAMES + 1, "#A00001"), 0, <<>>) >>)

\* b.json: a file the validator accepts; the 'frames' list of LED 3 has the
\* valid flag 2 and a frame of 199 colours, its 'keyframes' list is in order
DocB ==
    MkDocument(8,
        << MkPage(5, 1, Uniform(ExceedingFrameCount, "#B00000"), 0, <<>>),
           MkPage(6, 1, Uniform(FittingFrameCount, "#B00001"), 0, <<>>),
           MkPage(7, 2, <<"short">>, 1, <<"#0000B0">>) >>)

\* short.json: seven pages, and a frame of 199 colours in LED 1
DocShort ==
    MkDocument(7,
        << MkPage(5, 1, <<"short">>, 0, <<>>),
           MkPage(6, 1, <<"#C00000">>, 0, <<>>) >>)

\* what a file name of the source directory holds: a JSON object, a JSON
\* array, text that is no JSON, or nothing (no such file)
JsonObject(data) == [kind |-> "object", data |-> data]
JsonArray == [kind |-> "array", data |-> <<>>]
NotJson == [kind |-> "text", data |-> <<>>]
Absent == [kind |-> "absent", data |-> <<>>]

\* the file names of the source directory; notes.txt is a copy of b.json under
\* a name without the suffix .json
FileNames == {"a.json", "b.json", "short.json", "list.json", "notes.txt"}

\* f.suffix.lower() == '.json' (file_handler.py:24)
HasJsonSuffix(f) == f \in {"a.json", "b.json", "short.json", "list.json"}

EmptyDir == [f \in FileNames |-> Absent]

FullDir ==
    [f \in FileNames |->
        CASE f = "a.json"     -> JsonObject(DocA)
          [] f = "b.json"     -> JsonObject(DocB)
          [] f = "short.json" -> JsonObject(DocShort)
          [] f = "notes.txt"  -> JsonObject(DocB)
          [] OTHER            -> JsonArray]

\* the file that is edited, replaced or removed while the program runs
VolatileFile == "b.json"
VolatileContents == {JsonObject(DocB), NotJson, Absent}

\* LEDConfiguration(data): the object load_configuration returns; deepcopy
\* works on any JSON value
LEDConfiguration(root, data) == [root |-> root, config_data |-> data]

\* load_configuration that reports every failure as a missing file
load_configuration_OneKind(d, filename) ==
    IF filename \notin DOMAIN d \/ d[filename].kind \in {"absent", "text"}
    THEN [raised |-> "FileNotFoundError", config |-> None]
    ELSE [raised |-> "", config |-> Some(LEDConfiguration(d[filename].kind, d[filename].data))]

\* FileHandler.load_configuration(filename)
load_configuration(d, filename) ==
    IF filename \notin DOMAIN d \/ d[filename].kind = "absent"
    THEN [raised |-> "FileNotFoundError", config |-> None]
    ELSE IF d[filename].kind = "text"
    THEN [raised |-> "ValueError", config |-> None]
    ELSE [raised |-> "", config |-> Some(LEDConfiguration(d[filename].kind, d[filename].data))]

\* validate_json_file that takes every file for valid
validate_json_file_Always(d, filename) == TRUE

\* FileHandler.validate_json_file(filename)
validate_json_file(d, filename) == load_configuration(d, filename).raised = ""

\* FileHandler.get_json_files: the files of the directory named *.json
get_json_files(d) == {f \in DOMAIN d : d[f].kind # "absent" /\ HasJsonSuffix(f)}

\* ConfigurationMerger.get_available_files, ConfigurationLoader.load_and_validate_files
get_available_files(d) == {f \in get_json_files(d) : validate_json_file(d, f)}

\* config_data.get(...) on a document that is no dict raises AttributeError
raises_AttributeError(config) == config.root # "object"

\* FileHandler.save_configuration(config, filename, overwrite): the file written
Saved(config, filename, overwrite) ==
    [dir |-> IF overwrite THEN "source_dir" ELSE "output_dir",
     filename |-> filename, data |-> config.config_data]

-----------------------------------------------------------------------------
(* core/merger.py, main.py: the steps of the workflow as functions of the
   application state *)

\* the application state as one record
App ==
    [pc |-> pc, disk |-> disk, files |-> files, base_config |-> base_config,
     mappings |-> mappings, led_num |-> led_num, current_page |-> current_page,
     current_frames |-> current_frames, combined_sources |-> combined_sources,
     select_for |-> select_for, max_additional_frames |-> max_additional_frames,
     selected_file |-> selected_file, source_config |-> source_config,
     valid_choices |-> valid_choices, summary_result |-> summary_result,
     led_config_completed |-> led_config_completed, merged_config |-> merged_config,
     written |-> written, shown |-> shown, result |-> result, validated |-> validated,
     selections |-> selections, base_file |-> base_file,
     resolved |-> resolved]

\* the state after a step
Becomes(s) ==
    /\ pc' = s.pc
    /\ disk' = s.disk
    /\ files' = s.files
    /\ base_config' = s.base_config
    /\ mappings' = s.mappings
    /\ led_num' = s.led_num
    /\ current_page' = s.current_page
    /\ current_frames' = s.current_frames
    /\ combined_sources' = s.combined_sources
    /\ select_for' = s.select_for
    /\ max_additional_frames' = s.max_additional_frames
    /\ selected_file' = s.selected_file
    /\ source_config' = s.source_config
    /\ valid_choices' = s.valid_choices
    /\ summary_result' = s.summary_result
    /\ led_config_completed' = s.led_config_completed
    /\ merged_config' = s.merged_config
    /\ written' = s.written
    /\ shown' = s.shown
    /\ result' = s.result
    /\ validated' = s.validated
    /\ selections' = s.selections
    /\ base_file' = s.base_file
    /\ resolved' = s.resolved

\* the state a step of the program starts from: nothing displayed yet, the
\* file answered at the last source-file prompt forgotten unless its LEDs are
\* on offer, and the last summary result forgotten unless run() is saving
Step ==
    [App EXCEPT !.shown = "",
                !.selected_file = IF pc = "source_led" THEN @ ELSE None,
                !.summary_result =
                    IF pc \in {"save_method", "confirm_overwrite", "get_filename", "retry"}
                    THEN @ ELSE None]

\* the locals of configure_led_mapping after it returned
SlotReturned(s) ==
    [s EXCEPT !.led_num = 0, !.current_page = None, !.current_frames = 0,
              !.combined_sources = <<>>]

\* the locals of _select_source_led after it returned
SelectReturned(s) ==
    [s EXCEPT !.files = {}, !.select_for = "", !.max_additional_frames = 0,
              !.source_config = None, !.valid_choices = {}]

\* run() returns value (main.py:36, 64, 88, 93, 97, 100)
run_returns(s, value) ==
    [SelectReturned(SlotReturned(s)) EXCEPT !.pc = "done", !.result = Some(value)]

\* main.py:98-100: an exception reached run()
unexpected_error(s) == run_returns([s EXCEPT !.shown = "Unexpected error"], FALSE)

\* select_base_configuration up to its prompt (merger.py:82-109)
select_base_configuration(s) ==
    LET listed == get_available_files(s.disk)
        t == [SelectReturned(SlotReturned(s)) EXCEPT !.base_file = None]
    IN  IF listed = {}
        THEN [t EXCEPT !.pc = "no_files", !.shown = "No JSON files found"]
        ELSE [t EXCEPT !.pc = "select_base", !.files = listed]

\* page.get_frame_count() if page else 0 (merger.py:146, 186)
frame_count_or_zero(page) == IF page # None THEN get_frame_count(page[1]) ELSE 0

\* configure_led_mapping that keeps the sources collected so far
configure_led_mapping_KeepingSources(s, n) ==
    LET page == get_page(s.base_config[1].config_data, CUSTOM_LED_START_PAGE - 1 + n)
    IN  [s EXCEPT !.led_num = n, !.current_page = page,
                  !.current_frames = frame_count_or_zero(page),
                  !.pc = "led_action"]

\* configure_led_mapping(led_num) up to its first prompt (merger.py:144-162)
configure_led_mapping(s, n) ==
    LET page == get_page(s.base_config[1].config_data, CUSTOM_LED_START_PAGE - 1 + n)
    IN  [s EXCEPT !.led_num = n, !.current_page = page,
                  !.current_frames = frame_count_or_zero(page),
                  !.combined_sources = <<>>, !.pc = "led_action"]

\* show_summary up to its prompt (merger.py:320-333)
show_summary(s) == [SlotReturned(s) EXCEPT !.pc = "summary"]

\* configure_all_mappings that goes to the summary when every slot holds a
\* mapping already
configure_all_mappings_Resuming(s) ==
    IF DOMAIN s.mappings = 1..3 THEN show_summary(s) ELSE configure_led_mapping(s, 1)

\* configure_all_mappings from its start (merger.py:305-307)
configure_all_mappings(s) == configure_led_mapping(s, 1)

\* LEDMappingResult(action, **kwargs): an action outside back, keep, combined
\* makes the constructor fall back to 'keep' without data (merger.py:18-32)
LEDMappingResult(action, data) ==
    IF action \in {"back", "keep", "combined"}
    THEN [action |-> action, data |-> data]
    ELSE [action |-> "keep", data |-> EmptyDict]

\* store_mapping that resets the mappings of the other slots to 'keep'
store_mapping_ResettingOthers(s, mapping) ==
    LET t == [s EXCEPT !.mappings = Put([n \in DOMAIN @ |-> [action |-> "keep", data |-> EmptyDict]],
                                        s.led_num, mapping),
                       !.resolved = @ \cup {s.led_num}]
    IN  IF s.led_num + 1 <= 3 THEN configure_led_mapping(t, s.led_num + 1)
        ELSE show_summary(t)

\* configure_all_mappings after configure_led_mapping returned a result that
\* is not 'back' (merger.py:314-318, main.py:42-50)
store_mapping(s, mapping) ==
    LET t == [s EXCEPT !.mappings = Put(@, s.led_num, mapping),
                       !.resolved = @ \cup {s.led_num}]
    IN  IF s.led_num + 1 <= 3 THEN configure_led_mapping(t, s.led_num + 1)
        ELSE show_summary(t)

\* the loop of configure_all_mappings that stores whatever
\* configure_led_mapping returned, a 'back' result included
mapping_returned_StoringBack(s, mapping) == store_mapping(s, mapping)

\* the loop of configure_all_mappings after configure_led_mapping returned
\* (merger.py:307-318): 'back' steps to the previous slot, or out of the
\* loop at slot 1 (main.py:42-44); any other result is stored
mapping_returned(s, mapping) ==
    IF mapping.action = "back"
    THEN IF s.led_num > 1
         THEN configure_led_mapping(s, s.led_num - 1)
         ELSE select_base_configuration(s)
    ELSE store_mapping(s, mapping)

\* merger.py:205-210
return_combined(s) ==
    store_mapping(s, LEDMappingResult("combined",
        [page_data |-> s.current_page, sources |-> s.combined_sources,
         frame_count |-> s.current_frames]))

\* ask_next_action that stops prompting only above MAX_FRAMES
ask_next_action_AtLimit(s) ==
    IF s.current_frames <= MAX_FRAMES
    THEN [s EXCEPT !.pc = "next_action"]
    ELSE return_combined([s EXCEPT !.shown = "Maximum frame limit reached"])

\* merger.py:180-203: the next-action prompt, or the slot is finished
ask_next_action(s) ==
    IF s.current_frames < MAX_FRAMES
    THEN [s EXCEPT !.pc = "next_action"]
    ELSE return_combined([s EXCEPT !.shown = "Maximum frame limit reached"])

\* merger.py:149-162: the top of the loop of configure_led_mapping
loop_top(s) ==
    IF s.combined_sources = <<>> THEN [s EXCEPT !.pc = "led_action"]
    ELSE ask_next_action(s)

\* _select_source_led up to its first prompt (merger.py:236-238)
select_source_led(s, caller, budget) ==
    [s EXCEPT !.files = get_available_files(s.disk), !.select_for = caller,
              !.max_additional_frames = budget, !.pc = "source_file"]

\* merger.py:225-227
handle_replace_action(s) == select_source_led(s, "replace", MAX_FRAMES)

\* max_additional that leaves the frames the slot already holds out of account
max_additional_IgnoringCurrent(max_frames, frames) == max_frames

\* merger.py:231
max_additional(max_frames, frames) == max_frames - frames

\* merger.py:229-232
handle_add_led_action(s) ==
    select_source_led(s, "add", max_additional(MAX_FRAMES, s.current_frames))

\* _select_source_led returned None: `continue` (merger.py:175, 198)
selected_nothing(s) == loop_top(SelectReturned(s))

fits_Always(frame_count, budget) == TRUE

\* merger.py:263
fits(frame_count, budget) == frame_count <= budget

\* merger.py:254-269: the numbers of the LEDs offered as choices
choices_within(pages, budget) ==
    {i \in DOMAIN pages : fits(get_frame_count(pages[i]), budget)}

\* LEDMerger.combine_pages([current_page, page]) on the two page objects of
\* configure_led_mapping, read back as page data
combine_two(current, page) ==
    LET objs == AsObjects(<<>>, <<>>, <<current, page>>, 1)
        r == combine_pages(objs.frame_objs, objs.page_objs, <<1, 2>>)
    IN  PageValue(r.frame_objs, r.page_objs[r.combined])

\* selected_page that resolves the slot as soon as a Replace source is selected
selected_page_ResolvingReplace(s, page, description) ==
    LET frame_count == get_frame_count(page)
        t == SelectReturned(s)
    IN  IF s.select_for = "replace"
        THEN return_combined([t EXCEPT !.current_page = Some(page),
                                       !.current_frames = frame_count,
                                       !.combined_sources = <<description>>])
        ELSE IF s.current_page = None
        THEN unexpected_error(s)
        ELSE loop_top([t EXCEPT !.current_page = Some(combine_two(s.current_page[1], page)),
                                !.current_frames = @ + frame_count,
                                !.combined_sources = Append(@, description)])

\* _select_source_led returned a page (merger.py:170-173, 191-196)
selected_page(s, page, description) ==
    LET frame_count == get_frame_count(page)
        t == SelectReturned(s)
    IN  IF s.select_for = "replace"
        THEN ask_next_action([t EXCEPT !.current_page = Some(page),
                                       !.current_frames = frame_count,
                                       !.combined_sources = <<description>>])
        ELSE IF s.current_page = None
        THEN unexpected_error(s)
        ELSE loop_top([t EXCEPT !.current_page = Some(combine_two(s.current_page[1], page)),
                                !.current_frames = @ + frame_count,
                                !.combined_sources = Append(@, description)])

\* the loop of perform_merge from slot i (merger.py:368-377); set_page stamps
\* the page object the mapping holds
RECURSIVE merge_slots(_, _, _)
merge_slots(config, maps, i) ==
    IF i > 3 THEN [raised |-> FALSE, config |-> config, mappings |-> maps]
    ELSE IF maps[i].action # "combined" THEN merge_slots(config, maps, i + 1)
    ELSE
        LET page == maps[i].data.page_data
            target_idx == CUSTOM_LED_START_PAGE - 1 + i
            in_range == 0 <= target_idx /\ target_idx < Len(Get(config, "page_data", <<>>))
        IN  IF page = None
            THEN IF in_range
                 THEN [raised |-> TRUE, config |-> config, mappings |-> maps]
                 ELSE merge_slots(config, maps, i + 1)
            ELSE LET r == set_page(config, target_idx, page[1])
                 IN  merge_slots(r.config,
                                 [maps EXCEPT ![i].data.page_data = Some(r.page)], i + 1)

perform_merge_WithoutLeds(base, maps) ==
    merge_slots([base.config_data EXCEPT !.page_data = SubSeq(@, 1, CUSTOM_LED_START_PAGE)],
                maps, 1)

\* perform_merge (merger.py:359-379)
perform_merge(base, maps) == merge_slots(base.config_data, maps, 1)

\* merge_and_save whose merged document is the base document itself, as if
\* LEDConfiguration did not copy its input
merge_and_save_InPlace(s) ==
    LET r == perform_merge(s.base_config[1], s.mappings)
    IN  IF r.raised THEN unexpected_error(s)
        ELSE [s EXCEPT !.mappings = r.mappings,
                       !.merged_config = Some(LEDConfiguration("object", r.config)),
                       !.base_config = Some(LEDConfiguration("object", r.config)),
                       !.pc = "save_method"]

\* main.py:80-86: merge, then save_configuration up to its first prompt
merge_and_save(s) ==
    LET r == perform_merge(s.base_config[1], s.mappings)
    IN  IF r.raised THEN unexpected_error(s)
        ELSE [s EXCEPT !.mappings = r.mappings,
                       !.merged_config = Some(LEDConfiguration("object", r.config)),
                       !.pc = "save_method"]

completes_UnlessRestart(choice) == choice # "restart"

\* main.py:65-68: the summary result that completes the LED configuration
completes(choice) == choice = "proceed"

\* after_summary that keeps the mappings on back_to_mapping
after_summary_KeepingMappings(s, choice) ==
    LET t == [s EXCEPT !.summary_result = Some(choice)]
    IN  IF completes(choice)
        THEN merge_and_save([t EXCEPT !.led_config_completed = TRUE])
        ELSE IF choice = "back_to_mapping"
        THEN configure_all_mappings(t)
        ELSE IF choice = "restart"
        THEN run_returns([t EXCEPT !.shown = "Restarting configuration..."], FALSE)
        ELSE select_base_configuration(t)

\* main.py:50-77: run() after show_summary returned
after_summary(s, choice) ==
    LET t == [s EXCEPT !.summary_result = Some(choice)]
    IN  IF completes(choice)
        THEN merge_and_save([t EXCEPT !.led_config_completed = TRUE])
        ELSE IF choice = "back_to_mapping"
        THEN configure_all_mappings([t EXCEPT !.mappings = EmptyDict, !.resolved = {}])
        ELSE IF choice = "restart"
        THEN run_returns([t EXCEPT !.shown = "Restarting configuration..."], FALSE)
        ELSE select_base_configuration(t)

\* save_configuration after FileHandler.save_configuration was called
\* (merger.py:392-400, 407-413, main.py:86-91)
saved(s, filename, overwrite, io_ok) ==
    IF io_ok
    THEN run_returns(
             [s EXCEPT !.written = @ \cup {Saved(s.merged_config[1], filename, overwrite)},
                       !.disk = IF overwrite
                                THEN Put(@, filename, JsonObject(s.merged_config[1].config_data))
                                ELSE @],
             TRUE)
    ELSE [s EXCEPT !.shown = "Failed to save file", !.pc = "retry"]

-----------------------------------------------------------------------------
(* Spec: a session of CyberboardMergerApp.run, one action per answer to a
   prompt *)

Init ==
    /\ disk \in {EmptyDir, FullDir}
    /\ files = get_available_files(disk)
    /\ pc = IF files = {} THEN "no_files" ELSE "select_base"
    /\ shown = IF files = {} THEN "No JSON files found" ELSE ""
    /\ base_config = None
    /\ mappings = EmptyDict
    /\ led_num = 0
    /\ current_page = None
    /\ current_frames = 0
    /\ combined_sources = <<>>
    /\ select_for = ""
    /\ max_additional_frames = 0
    /\ selected_file = None
    /\ source_config = None
    /\ valid_choices = {}
    /\ summary_result = None
    /\ led_config_completed = FALSE
    /\ merged_config = None
    /\ written = {}
    /\ result = None
    /\ validated = {}
    /\ selections = 0
    /\ base_file = None
    /\ resolved = {}
    /\ IdleCombine
    /\ IdleValidate
    /\ IdleModel

\* the user puts configuration files into the source directory
AddFiles ==
    /\ pc = "no_files"
    /\ disk = EmptyDir
    /\ disk' = FullDir
    /\ UNCHANGED <<pc, files, base_config, mappings, slot_vars, select_vars, summary_result,
                   led_config_completed, merged_config, written, shown, result, validated,
                   selections, base_file, resolved>>
    /\ UNCHANGED <<combine_vars, validate_vars, model_vars>>

\* a file of the source directory is edited or removed while a file prompt is open
ChangeFile ==
    /\ pc \in {"select_base", "source_file"}
    /\ VolatileFile \in DOMAIN disk
    /\ \E content \in VolatileContents \ {disk[VolatileFile]} :
          disk' = [disk EXCEPT ![VolatileFile] = content]
    /\ UNCHANGED <<pc, files, base_config, mappings, slot_vars, select_vars, summary_result,
                   led_config_completed, merged_config, written, shown, result, validated,
                   selections, base_file, resolved>>
    /\ UNCHANGED <<combine_vars, validate_vars, model_vars>>

\* handle_no_files_action: "Retry after adding JSON files" or "Reload config.toml and retry"
NoFilesRetry ==
    /\ pc = "no_files"
    /\ Becomes(select_base_configuration(Step))
    /\ UNCHANGED <<combine_vars, validate_vars, model_vars>>

\* handle_no_files_action: "Exit application"
NoFilesExit ==
    /\ pc = "no_files"
    /\ Becomes(run_returns(Step, FALSE))
    /\ UNCHANGED <<combine_vars, validate_vars, model_vars>>

\* select_base_file answered with a file (merger.py:109-120, main.py:35-42)
SelectBaseFile ==
    /\ pc = "select_base"
    /\ \E f \in files :
          LET loaded == load_configuration(disk, f)
              chosen == [Step EXCEPT !.base_file = Some(f)]
              failed == [chosen EXCEPT !.shown = "Failed to load base configuration"]
          IN  IF loaded.raised # ""
              THEN Becomes(run_returns(failed, FALSE))
              ELSE IF raises_AttributeError(loaded.config[1])
              THEN Becomes(run_returns([failed EXCEPT !.base_config = loaded.config,
                                                      !.resolved = {}], FALSE))
              ELSE Becomes(configure_all_mappings(
                       [SelectReturned(chosen) EXCEPT !.base_config = loaded.config,
                                                    !.resolved = {},
                                                    !.led_config_completed = FALSE]))
    /\ UNCHANGED <<combine_vars, validate_vars, model_vars>>

\* select_base_file answered with Quit
SelectBaseQuit ==
    /\ pc = "select_base"
    /\ Becomes(run_returns(Step, FALSE))
    /\ UNCHANGED <<combine_vars, validate_vars, model_vars>>

\* select_led_action: Back (merger.py:164-165, 309-313, main.py:42-44)
LedActionBack ==
    /\ pc = "led_action"
    /\ Becomes(mapping_returned(Step, LEDMappingResult("back", EmptyDict)))
    /\ UNCHANGED <<combine_vars, validate_vars, model_vars>>

\* select_led_action: Keep Base
LedActionKeep ==
    /\ pc = "led_action"
    /\ Becomes(store_mapping(Step, LEDMappingResult("keep", EmptyDict)))
    /\ UNCHANGED <<combine_vars, validate_vars, model_vars>>

\* select_led_action: Replace
LedActionReplace ==
    /\ pc = "led_action"
    /\ Becomes(handle_replace_action(Step))
    /\ UNCHANGED <<combine_vars, validate_vars, model_vars>>

\* select_led_action: Combine with Base
LedActionCombine ==
    /\ pc = "led_action"
    /\ Becomes(ask_next_action([Step EXCEPT !.combined_sources = <<<<"Base", led_num>>>>]))
    /\ UNCHANGED <<combine_vars, validate_vars, model_vars>>

\* select_next_action: Back (merger.py:183-188)
NextActionBack ==
    /\ pc = "next_action"
    /\ Becomes(configure_led_mapping(Step, led_num))
    /\ UNCHANGED <<combine_vars, validate_vars, model_vars>>

\* select_next_action: Add another LED
NextActionAddAnother ==
    /\ pc = "next_action"
    /\ Becomes(handle_add_led_action(Step))
    /\ UNCHANGED <<combine_vars, validate_vars, model_vars>>

\* select_next_action: Finish
NextActionFinish ==
    /\ pc = "next_action"
    /\ Becomes(return_combined(Step))
    /\ UNCHANGED <<combine_vars, validate_vars, model_vars>>

\* select_source_file answered with Back
SelectSourceFileBack ==
    /\ pc = "source_file"
    /\ Becomes(selected_nothing(Step))
    /\ UNCHANGED <<combine_vars, validate_vars, model_vars>>

\* select_source_file answered with a file (merger.py:238-278)
SelectSourceFile ==
    /\ pc = "source_file"
    /\ \E f \in files :
          LET loaded == load_configuration(disk, f)
              chosen == [Step EXCEPT !.selected_file = Some(f)]
          IN  IF loaded.raised # ""
              THEN Becomes(selected_nothing(
                       [chosen EXCEPT !.shown = "Failed to load source configuration"]))
              ELSE IF raises_AttributeError(loaded.config[1])
              THEN Becomes(unexpected_error(chosen))
              ELSE LET choices ==
                           choices_within(get_custom_led_pages(loaded.config[1].config_data),
                                          max_additional_frames)
                   IN  IF choices = {}
                       THEN Becomes(selected_nothing(
                                [chosen EXCEPT !.shown = "No LEDs fit within the remaining frame limit!"]))
                       ELSE Becomes([chosen EXCEPT !.source_config = loaded.config,
                                                   !.valid_choices = choices,
                                                   !.pc = "source_led"])
    /\ UNCHANGED <<combine_vars, validate_vars, model_vars>>

\* select_source_led answered with Back
SelectSourceLedBack ==
    /\ pc = "source_led"
    /\ Becomes(selected_nothing([Step EXCEPT !.selected_file = None]))
    /\ UNCHANGED <<combine_vars, validate_vars, model_vars>>

\* select_source_led answered with "LED led_idx (n frames)" (merger.py:278-299)
SelectSourceLed ==
    /\ pc = "source_led"
    /\ selections < MaxSelections
    /\ \E led_idx \in valid_choices :
          LET source_page == get_page(source_config[1].config_data,
                                      CUSTOM_LED_START_PAGE - 1 + led_idx)
              t == [Step EXCEPT !.selected_file = None, !.selections = @ + 1]
          IN  IF source_page = None
              THEN Becomes(selected_nothing(t))
              ELSE Becomes(selected_page(t, source_page[1], <<selected_file[1], led_idx>>))
    /\ UNCHANGED <<combine_vars, validate_vars, model_vars>>

\* confirm_proceed: Yes, proceed
ConfirmProceed ==
    /\ pc = "summary"
    /\ Becomes(after_summary(Step, "proceed"))
    /\ UNCHANGED <<combine_vars, validate_vars, model_vars>>

\* confirm_proceed: No, restart
ConfirmRestart ==
    /\ pc = "summary"
    /\ Becomes(after_summary(Step, "restart"))
    /\ UNCHANGED <<combine_vars, validate_vars, model_vars>>

\* confirm_proceed: Back to LED mapping
ConfirmBackToMapping ==
    /\ pc = "summary"
    /\ Becomes(after_summary(Step, "back_to_mapping"))
    /\ UNCHANGED <<combine_vars, validate_vars, model_vars>>

\* confirm_proceed answered with nothing (the prompt was cancelled)
ConfirmCancelled ==
    /\ pc = "summary"
    /\ Becomes(after_summary(Step, "cancelled"))
    /\ UNCHANGED <<combine_vars, validate_vars, model_vars>>

\* select_save_method: Back (merger.py:385-387, main.py:89-91)
SaveMethodBack ==
    /\ pc = "save_method"
    /\ Becomes([Step EXCEPT !.pc = "retry"])
    /\ UNCHANGED <<combine_vars, validate_vars, model_vars>>

\* select_save_method: Overwrite base file
SaveMethodOverwrite ==
    /\ pc = "save_method"
    /\ Becomes([Step EXCEPT !.pc = "confirm_overwrite"])
    /\ UNCHANGED <<combine_vars, validate_vars, model_vars>>

\* select_save_method: Save as new file
SaveMethodNew ==
    /\ pc = "save_method"
    /\ Becomes([Step EXCEPT !.pc = "get_filename"])
    /\ UNCHANGED <<combine_vars, validate_vars, model_vars>>

\* confirm_overwrite: Yes, overwrite; base_filename is "merged_config.json" (main.py:85)
ConfirmOverwriteYes ==
    /\ pc = "confirm_overwrite"
    /\ \E io_ok \in BOOLEAN : Becomes(saved(Step, "merged_config.json", TRUE, io_ok))
    /\ UNCHANGED <<combine_vars, validate_vars, model_vars>>

\* confirm_overwrite: No, go back (merger.py:401-402)
ConfirmOverwriteNo ==
    /\ pc = "confirm_overwrite"
    /\ Becomes([Step EXCEPT !.pc = "save_method"])
    /\ UNCHANGED <<combine_vars, validate_vars, model_vars>>

\* get_filename answered: the default name, or a name typed without ".json"
EnterFilename ==
    /\ pc = "get_filename"
    /\ \E filename \in {"merged_timestamp.json", "out.json"}, io_ok \in BOOLEAN :
          Becomes(saved(Step, filename, FALSE, io_ok))
    /\ UNCHANGED <<combine_vars, validate_vars, model_vars>>

\* "Retry save process? (y/n)": y
RetrySave ==
    /\ pc = "retry"
    /\ Becomes(merge_and_save(Step))
    /\ UNCHANGED <<combine_vars, validate_vars, model_vars>>

\* "Retry save process? (y/n)": anything else
RetryDecline ==
    /\ pc = "retry"
    /\ Becomes(run_returns(Step, FALSE))
    /\ UNCHANGED <<combine_vars, validate_vars, model_vars>>

\* Ctrl-C at the input() of main.py:91 (main.py:95-97)
Interrupt ==
    /\ pc = "retry"
    /\ Becomes(run_returns([Step EXCEPT !.shown = "Operation cancelled by user."], FALSE))
    /\ UNCHANGED <<combine_vars, validate_vars, model_vars>>

Next ==
    \/ AddFiles
    \/ ChangeFile
    \/ NoFilesRetry
    \/ NoFilesExit
    \/ SelectBaseFile
    \/ SelectBaseQuit
    \/ LedActionBack
    \/ LedActionKeep
    \/ LedActionReplace
    \/ LedActionCombine
    \/ NextActionBack
    \/ NextActionAddAnother
    \/ NextActionFinish
    \/ SelectSourceFileBack
    \/ SelectSourceFile
    \/ SelectSourceLedBack
    \/ SelectSourceLed
    \/ ConfirmProceed
    \/ ConfirmRestart
    \/ ConfirmBackToMapping
    \/ ConfirmCancelled
    \/ SaveMethodBack
    \/ SaveMethodOverwrite
    \/ SaveMethodNew
    \/ ConfirmOverwriteYes
    \/ ConfirmOverwriteNo
    \/ EnterFilename
    \/ RetrySave
    \/ RetryDecline
    \/ Interrupt

Spec == Init /\ [][Next]_vars

-----------------------------------------------------------------------------
(* Claims about LEDMerger.combine_pages (SpecCombine) *)

\* combine_pages has returned a page and nothing was written since
Returned == call.done /\ ~call.raised /\ ~call.changed

\* the colour lists, in order, of the frame dicts a list of refs names
RGBNames(H, refs) == [i \in DOMAIN refs |-> H[refs[i]].frame_RGB]

\* the frames of each input page's own authoritative list (frames unless
\* frames.valid == 0), as they were before the call, page after page
RECURSIVE OwnFrames(_)
OwnFrames(k) ==
    IF k > Len(call.pages) THEN <<>>
    ELSE RGBNames(call.pre_frame_objs, get_frames(call.pre_page_objs[call.pages[k]]))
             \o OwnFrames(k + 1)

\* C1: the list under the key chosen from the first page ('frames' if its
\* valid == 1, else 'keyframes') of the page combine_pages returns is the
\* concatenation, in input order, of every input page's own authoritative frame
\* list.
C1_ConcatenationOfOwnLists ==
    Returned =>
        LET first == call.pre_page_objs[call.pages[1]]
            key == IF first.frames.valid = 1 THEN "frames" ELSE "keyframes"
        IN  RGBNames(frame_objs, page_objs[call.combined][key].frame_data) = OwnFrames(1)

\* C2: in the page combine_pages returns, get_frames()[i].frame_index == i for
\* every position i (0-based), also when a page object is in the list twice.
C2_FrameIndexContiguous ==
    Returned =>
        LET frames == get_frames(page_objs[call.combined])
        IN  \A i \in DOMAIN frames : frame_objs[frames[i]].frame_index = i - 1

\* C3: combine_pages neither changes nor aliases its inputs: every input page
\* has the page data it had before the call, at return and after any later
\* change made through the combined page.
C3_InputsUnchanged ==
    (call.done /\ ~call.raised) =>
        \A i \in DOMAIN call.pages :
            PageValue(frame_objs, page_objs[call.pages[i]])
                = PageValue(call.pre_frame_objs, call.pre_page_objs[call.pages[i]])

-----------------------------------------------------------------------------
(* Claims about ConfigurationValidator (SpecValidate) *)

PageNumWrong ==
    "page_num" \notin DOMAIN config_data \/ config_data.page_num # 8

\* frame_RGB of the frame has 199 entries
ShortFrame(frame) == "frame_RGB" \in DOMAIN frame /\ Len(RGB(frame.frame_RGB)) = 199

\* some frame of some page (a frame its get_frames() returns) has a frame_RGB
\* of 199 entries
SomeShortFrame ==
    \E i \in DOMAIN Get(config_data, "page_data", <<>>) :
        \E k \in DOMAIN get_frames(config_data.page_data[i]) :
            ShortFrame(get_frames(config_data.page_data[i])[k])

\* some frame of the list the validator inspects ('frames' when frames.valid
\* is 1, otherwise 'keyframes' when keyframes.valid is 1) of a custom-LED page
\* (index 5..7) has a frame_RGB of 199 entries
InspectedShortFrame ==
    \E i \in DOMAIN Get(config_data, "page_data", <<>>) :
        LET page == config_data.page_data[i]
        IN  /\ i - 1 \in 5..7
            /\ \E key \in {"frames", "keyframes"} :
                  /\ page[key].valid = 1
                  /\ key = "keyframes" => page.frames.valid # 1
                  /\ \E k \in DOMAIN page[key].frame_data : ShortFrame(page[key].frame_data[k])

\* C9 as stated: validate_configuration returns at least one error for any
\* document whose page_num is not 8 and for any document in which some frame of
\* some page has a frame_RGB of 199 entries.
C9_ErrorForAnyShortFrame ==
    errors # None => ((PageNumWrong \/ SomeShortFrame) => errors[1] # <<>>)

\* C9 amended: validate_configuration returns at least one error for any
\* document whose page_num is not 8 and for any document in which some frame of
\* the inspected list of a custom-LED page has a frame_RGB of 199 entries.
C9_ErrorForInspectedShortFrame ==
    errors # None => ((PageNumWrong \/ InspectedShortFrame) => errors[1] # <<>>)

\* a document that is well formed but for one 199-entry frame in LED page 5 was
\* validated, and the only error is the RGB count of that frame
C9_Witness ==
    /\ errors # None
    /\ ~PageNumWrong
    /\ InspectedShortFrame
    /\ errors[1] = <<[path |-> <<5, 0>>, msg |-> "Expected RGB values",
                      args |-> <<200, 199>>, text |-> ""]>>

-----------------------------------------------------------------------------
(* Claims about the workflow (Spec) *)

\* all three slots are resolved
AllResolved ==
    /\ DOMAIN mappings = 1..3
    /\ \A n \in 1..3 : mappings[n].action \in {"keep", "combined"}

\* all three slots are resolved as 'keep'
AllKept ==
    /\ DOMAIN mappings = 1..3
    /\ \A n \in 1..3 : mappings[n].action = "keep"

\* C4: when all three mappings are 'keep', the document perform_merge returns
\* equals the base document, and so does every file saved from it.
C4_KeepAllReproducesBase ==
    (merged_config # None /\ AllKept) =>
        /\ merged_config[1].config_data = base_config[1].config_data
        /\ \A file \in written : file.data = base_config[1].config_data

\* a.json was loaded, all three slots kept, and the merge saved
C4_Witness ==
    /\ AllKept
    /\ base_config = Some(LEDConfiguration("object", DocA))
    /\ merged_config # None
    /\ written # {}
    /\ result = Some(TRUE)

\* C5: after perform_merge, for every slot n whose mapping is 'combined', the
\* slot's resolved page is page_data[4+n] of the merged configuration and its
\* page_index is 4+n.
C5_CombinedSlotsPlaced ==
    merged_config # None =>
        \A n \in 1..3 :
            mappings[n].action = "combined" =>
                LET placed == get_page(merged_config[1].config_data, 4 + n)
                IN  /\ placed # None
                    /\ placed = mappings[n].data.page_data
                    /\ placed[1].page_index = 4 + n

\* the budget of the open source selection: MAX_FRAMES for Replace,
\* MAX_FRAMES - current_frames for Add another
Budget == IF select_for = "replace" THEN MAX_FRAMES ELSE MAX_FRAMES - current_frames

\* the custom LEDs of the loaded source file, as shown to the user
OfferedPages == get_custom_led_pages(source_config[1].config_data)

\* while the source LED prompt is open: LED i is a choice iff its frame count
\* is within the budget
C6_ChoicesWithinBudget ==
    pc = "source_led" =>
        /\ max_additional_frames = Budget
        /\ valid_choices \subseteq DOMAIN OfferedPages
        /\ \A i \in DOMAIN OfferedPages :
              i \in valid_choices <=> get_frame_count(OfferedPages[i]) <= Budget

\* with 250 of 300 frames used, a source of 60 frames is no choice and one of 50 is
C6_Example ==
    /\ ~fits(60, max_additional(300, 250))
    /\ fits(50, max_additional(300, 250))

\* a step that selects a source LED: the frames the slot gained (Add another)
\* or holds (Replace) afterwards are within the budget
C6_SelectedWithinBudget ==
    (pc = "source_led" /\ selections' = selections + 1 /\ pc' # "done") =>
        LET total == IF pc' = "next_action" THEN current_frames'
                     ELSE mappings'[led_num].data.frame_count
            taken == IF select_for = "replace" THEN total ELSE total - current_frames
        IN  taken <= Budget

\* C6: a source LED is offered as a choice iff its frame count is <= the budget
\* (MAX_FRAMES for Replace, MAX_FRAMES - current_frames for Add another; 60
\* frames do not fit 300 - 250 and 50 do), and the page a selection returns
\* never exceeds the budget.
C6_CapacityEnforced ==
    /\ [](C6_ChoicesWithinBudget /\ C6_Example)
    /\ [][C6_SelectedWithinBudget]_vars

\* Add another on LED 1 of a.json: of b.json, LED 1 exceeds what is left and is
\* no choice, LED 2 fills it exactly and is one
C6_Witness ==
    /\ pc = "source_led"
    /\ select_for = "add"
    /\ current_frames = LongFrameCount
    /\ max_additional_frames = FittingFrameCount
    /\ get_frame_count(OfferedPages[1]) = ExceedingFrameCount
    /\ get_frame_count(OfferedPages[2]) = FittingFrameCount
    /\ 1 \notin valid_choices
    /\ 2 \in valid_choices

\* FileHandler.save_configuration can be or has been called: run() is in its
\* save loop (main.py:80-93), or a file was written
InSaveLoop ==
    \/ pc \in {"save_method", "confirm_overwrite", "get_filename", "retry"}
    \/ written # {}

\* C7: FileHandler.save_configuration is called only after all three slots
\* were resolved and the summary returned proceed; a session that ends any
\* other way than by a successful save has written nothing.
C7_SaveOnlyAfterProceed ==
    /\ InSaveLoop =>
          /\ summary_result = Some("proceed")
          /\ led_config_completed
          /\ AllResolved
          /\ merged_config # None
    /\ written # {} => (pc = "done" /\ result = Some(TRUE))
    /\ (pc = "done" /\ result # Some(TRUE)) => written = {}

\* a merge with a combined slot was saved
C7_Witness ==
    /\ written # {}
    /\ result = Some(TRUE)
    /\ summary_result = Some("proceed")
    /\ \E n \in 1..3 : mappings[n].action = "combined"

\* the file is missing, is no JSON, or is JSON but no configuration object
Malformed(file) == file.kind # "object"

\* C8: a malformed or missing source file chosen at the source file prompt
\* produces a shown error and a return to the slot's prompt with the slot's
\* current page, frame count and source list unchanged; the session goes on.
C8_BadSourceIsRecoverable ==
    [][(pc = "source_file" /\ selected_file' # None /\ Malformed(disk[selected_file'[1]])) =>
          /\ shown' # ""
          /\ pc' \in {"led_action", "next_action"}
          /\ result' = None
          /\ UNCHANGED slot_vars]_vars

\* the document has a schema violation
SchemaViolation(doc) == validate_configuration(doc) # <<>>

\* C10: no document with a schema violation is the accepted base configuration
\* or the source whose LEDs are offered unless the validator was run on it.
C10_ValidatorConsulted ==
    /\ (base_config # None /\ pc \in {"led_action", "next_action", "source_file", "source_led"}
            /\ SchemaViolation(base_config[1].config_data))
          => base_config[1].config_data \in validated
    /\ (source_config # None /\ SchemaViolation(source_config[1].config_data))
          => source_config[1].config_data \in validated

-----------------------------------------------------------------------------
(* Claims about the data model *)

\* C11: get_frames returns the frames of 'frames' when frames.valid = 1, the
\* frames of 'keyframes' when frames.valid = 0 and keyframes.valid = 1, and no
\* frame when neither list is marked valid, whatever frame_data they hold.
C11_GetFramesOfValidList ==
    model.op = "get_frames" =>
        LET page == page_objs[model.page]
        IN  /\ page.frames.valid = 1 => model.frames = page.frames.frame_data
            /\ (page.frames.valid = 0 /\ page.keyframes.valid = 1)
                  => model.frames = page.keyframes.frame_data
            /\ (page.frames.valid # 1 /\ page.keyframes.valid # 1) => model.frames = <<>>

\* C12: get_page(index) never raises, returns None exactly when index is
\* outside [0, page_count), page_count being the page count the document
\* declares, and otherwise returns the page at that position.
C12_GetPageWithinDeclaredCount ==
    model.op = "get_page" =>
        /\ ~model.raised
        /\ model.result = None
              <=> ~(0 <= model.index /\ model.index < page_count(config_data))
        /\ model.result # None => model.result = Some(config_data.page_data[model.index + 1])

\* what the LEDPage object, the LEDFrame object and the caller's page dict show
SeenThroughPage == IF model.page = 0 THEN None
                   ELSE Some(PageValue(frame_objs, page_objs[model.page]))

SeenThroughFrame == IF model.frame = 0 THEN None ELSE Some(frame_objs[model.frame])

SeenInInput == PageValue(frame_objs, page_objs[InputPageRef])

\* C13: every constructor of the data model deep-copies its input: a change
\* the caller makes to the input afterwards is not seen through the LEDPage or
\* LEDFrame built on it, and set_frame_index on a frame obtained from
\* get_frames, or set_page_index, is seen neither in the input nor in the page
\* the frame was read from.
C13_ConstructorsDeepCopy ==
    [][/\ model'.op = "input_changed"
             => UNCHANGED <<SeenThroughPage, SeenThroughFrame>>
       /\ model'.op = "set_frame_index"
             => UNCHANGED <<SeenInInput, SeenThroughPage>>
       /\ model'.op = "set_page_index"
             => UNCHANGED SeenInInput]_vars

------------------------------------------------------------------------\* the index is a position neither of the page list nor of the declared range
OutOfRange(config, index) ==
    /\ ~(0 <= index /\ index < Len(Get(config, "page_data", <<>>)))
    /\ ~(0 <= index /\ index < page_count(config))

\* C20: set_page(index, page) with an index out of range raises instead of
\* silently doing nothing, and leaves the configuration and the page unchanged.
C20_SetPageOutOfRangeRaises ==
    [][(model'.op = "set_page" /\ OutOfRange(config_data, model'.index)) =>
          /\ model'.raised
          /\ UNCHANGED <<config_data, page_objs, frame_objs>>]_vars

-----
(* Further claims about combine_pages *)

\* C14: combine_pages called with an empty list raises and produces no page:
\* no page object and no frame dict is created or changed.
C14_EmptyListRaises ==
    (call.done /\ call.pages = <<>>) =>
        /\ call.raised
        /\ call.combined = 0
        /\ page_objs = call.pre_page_objs
        /\ frame_objs = call.pre_frame_objs

\* combine_pages was called with an empty list and raised
C14_Witness == call.done /\ call.pages = <<>> /\ call.raised

\* the number of frames of the input pages' own lists before the call
RECURSIVE SumOfFrameCounts(_)
SumOfFrameCounts(k) ==
    IF k > Len(call.pages) THEN 0
    ELSE get_frame_count(call.pre_page_objs[call.pages[k]]) + SumOfFrameCounts(k + 1)

\* C15: after combine_pages the frame_num declared by the authoritative frame
\* list of the result equals the number of frames in that list, which equals
\* the sum of the input pages' get_frame_count(); nothing caps it at MAX_FRAMES.
C15_FrameNumIsSumOfCounts ==
    Returned =>
        LET authoritative == frames_data(page_objs[call.combined])
        IN  /\ authoritative.frame_num = Len(authoritative.frame_data)
            /\ Len(authoritative.frame_data) = SumOfFrameCounts(1)

\* C16: combine_pages never changes colours: the frame at position k of the
\* combined list has the frame_RGB of the source frame it came from (the first
\* page's frames under the chosen key, then every later page's own frames), and
\* the other list of the page and the frame dicts of the inputs keep theirs.
C16_RGBUnchanged ==
    Returned =>
        LET first == call.pre_page_objs[call.pages[1]]
            key == IF first.frames.valid = 1 THEN "frames" ELSE "keyframes"
            other == IF key = "frames" THEN "keyframes" ELSE "frames"
            combined == page_objs[call.combined]
        IN  /\ RGBNames(frame_objs, combined[key].frame_data)
                  = RGBNames(call.pre_frame_objs, first[key].frame_data) \o OwnFrames(2)
            /\ RGBNames(frame_objs, combined[other].frame_data)
                  = RGBNames(call.pre_frame_objs, first[other].frame_data)
            /\ \A r \in DOMAIN call.pre_frame_objs :
                  frame_objs[r].frame_RGB = call.pre_frame_objs[r].frame_RGB

\* three pages with frames were combined and an input frame got a new frame_index
C16_Witness ==
    /\ Returned
    /\ Len(call.pages) = 3
    /\ Len(get_frames(page_objs[call.combined])) >= 3
    /\ \E r \in DOMAIN call.pre_frame_objs :
          frame_objs[r].frame_index # call.pre_frame_objs[r].frame_index

-----------------------------------------------------------------------------
(* Further claims about the workflow *)

\* merged differs from base at most in the pages of the slots maps resolves as
\* 'combined': product_info, page_num, the number of pages, pages 0-4 and the
\* page of every 'keep' slot are those of base
OnlyCombinedSlotsDiffer(merged, base, maps) ==
    /\ merged.product_info = base.product_info
    /\ merged.page_num = base.page_num
    /\ Len(merged.page_data) = Len(base.page_data)
    /\ \A i \in DOMAIN base.page_data :
          (i <= CUSTOM_LED_START_PAGE \/ maps[i - CUSTOM_LED_START_PAGE].action = "keep")
              => merged.page_data[i] = base.page_data[i]

\* resolved mappings over the custom LED pages of b.json: every slot 'keep' or
\* 'combined' with one of these pages
ResolvedMappings ==
    LET pages == {Some(DocB.page_data[i]) : i \in {CUSTOM_LED_START_PAGE + 1,
                                                  CUSTOM_LED_START_PAGE + 2}}
        results == {LEDMappingResult("keep", EmptyDict)}
                      \cup {LEDMappingResult("combined",
                                [page_data |-> p, sources |-> <<"b.json LED1">>,
                                 frame_count |-> get_frame_count(p[1])]) : p \in pages}
    IN  [1..3 -> results]

\* C17: perform_merge leaves product_info, page_num, pages 0-4 and the page of
\* every 'keep' slot equal to the base: so it is for the document the session
\* merged, and for the merge of the loaded base with any three resolved mappings.
C17_OnlyCombinedSlotsChange ==
    merged_config # None =>
        /\ OnlyCombinedSlotsDiffer(merged_config[1].config_data,
                                   base_config[1].config_data, mappings)
        /\ \A maps \in ResolvedMappings :
              LET r == perform_merge(base_config[1], maps)
              IN  /\ ~r.raised
                  /\ OnlyCombinedSlotsDiffer(r.config, base_config[1].config_data, maps)

\* a merge that replaced the page of a combined slot and kept another slot was saved
C17_Witness ==
    /\ merged_config # None
    /\ result = Some(TRUE)
    /\ merged_config[1].config_data # base_config[1].config_data
    /\ \E n \in 1..3 : mappings[n].action = "combined"
    /\ \E n \in 1..3 : mappings[n].action = "keep"

\* C18: a save with 'overwrite' chosen and confirmed writes the merged result
\* over the base file selected in step 1 (that file name, in the source
\* directory); every other save writes a file in the output directory.
C18_OverwriteReplacesBaseFile ==
    \A file \in written :
        IF file.dir = "source_dir"
        THEN base_file # None /\ file.filename = base_file[1]
        ELSE file.dir = "output_dir"

\* C19: a base file that is absent or cannot be loaded when it is selected
\* produces a shown error and a new prompt for the base file; the session does
\* not end.
C19_BadBaseIsRecoverable ==
    [][(pc = "select_base" /\ base_file' # None /\ Malformed(disk[base_file'[1]])) =>
          /\ shown' # ""
          /\ pc' = "select_base"
          /\ result' = None]_vars

\* the step lists the candidate files for a file prompt
ListsCandidates == pc' \in {"select_base", "source_file"} /\ pc' # pc

\* a file of the source directory that is no JSON
InvalidJsonPresent == \E f \in DOMAIN disk : disk[f].kind = "text"

\* C21: no error is silently swallowed: a file that fails to load when it is
\* selected, invalid JSON met while the candidates are listed, and a failed
\* save are each followed by a message before the workflow goes on.
C21_NoErrorSwallowed ==
    [][/\ (pc = "select_base" /\ base_file' # None /\ Malformed(disk[base_file'[1]]))
             => shown' # ""
       /\ (pc = "source_file" /\ selected_file' # None
              /\ load_configuration(disk, selected_file'[1]).raised # "")
             => shown' # ""
       /\ (pc \in {"confirm_overwrite", "get_filename"} /\ pc' = "retry") => shown' # ""
       /\ (ListsCandidates /\ InvalidJsonPresent) => shown' # ""]_vars

\* the prompts of configure_led_mapping and of _select_source_led
SlotPrompts == {"led_action", "next_action", "source_file", "source_led"}

ReplaceSourceSelected == pc = "source_led" /\ select_for = "replace" /\ selections' > selections

\* C23 as stated: Replace with a source selected resolves the slot at once: the
\* next-action prompt is not presented and the slot's mapping is stored.
C23_ReplaceResolvesAtOnce ==
    [][ReplaceSourceSelected =>
          /\ pc' # "next_action"
          /\ led_num \in DOMAIN mappings'
          /\ mappings'[led_num].action = "combined"
          /\ mappings'[led_num].data.sources = combined_sources']_vars

\* C23: Replace with a source selected makes the selected page the slot's
\* current page with its frame count and itself as only source; the slot then
\* awaits the next action when that count is below MAX_FRAMES, and resolves
\* at once as 'combined' only when the count has reached MAX_FRAMES.
C23_ReplaceAwaitsNextAction ==
    [][ReplaceSourceSelected =>
          \E i \in valid_choices :
              LET page == get_page(source_config[1].config_data, CUSTOM_LED_START_PAGE - 1 + i)
                  count == get_frame_count(page[1])
              IN  IF count < MAX_FRAMES
                  THEN /\ pc' = "next_action"
                       /\ led_num' = led_num
                       /\ mappings' = mappings
                       /\ current_page' = page
                       /\ current_frames' = count
                       /\ combined_sources' = << <<selected_file[1], i>> >>
                  ELSE /\ pc' # "next_action"
                       /\ mappings'[led_num].action = "combined"
                       /\ mappings'[led_num].data.page_data = page
                       /\ mappings'[led_num].data.frame_count = count]_vars

\* LED 2 of b.json replaced the page of a slot, which now awaits the next action
C23_Witness ==
    /\ pc = "next_action"
    /\ combined_sources = << <<"b.json", 2>> >>
    /\ current_page = Some(DocB.page_data[CUSTOM_LED_START_PAGE + 2])

\* the step reaches the point where the next action is asked (merger.py:179):
\* the base was taken for combining, or a source was selected and merged in
ReachesNextActionPoint ==
    /\ LedActionCombine \/ (SelectSourceLed /\ selections' > selections)
    /\ pc' # "done"

\* C24: the next-action prompt is presented only while the slot's running
\* frame count is below MAX_FRAMES; when the count is at or above MAX_FRAMES
\* where the next action would be asked, the prompt is not presented and the
\* slot resolves at once as a 'combined' mapping with that count.
C24_AutoFinishAtLimit ==
    /\ [](pc = "next_action" => current_frames < MAX_FRAMES)
    /\ [][ReachesNextActionPoint =>
             IF pc' = "next_action"
             THEN current_frames' < MAX_FRAMES /\ led_num' = led_num /\ mappings' = mappings
             ELSE /\ led_num \in DOMAIN mappings'
                  /\ mappings'[led_num].action = "combined"
                  /\ mappings'[led_num].data.frame_count >= MAX_FRAMES
                  /\ shown' = "Maximum frame limit reached"]_vars

\* a slot was resolved by itself with MAX_FRAMES frames
C24_Witness ==
    /\ shown = "Maximum frame limit reached"
    /\ \E n \in DOMAIN mappings :
          /\ mappings[n].action = "combined"
          /\ mappings[n].data.frame_count = MAX_FRAMES
          /\ Len(mappings[n].data.sources) = 2

\* the page of slot n in the base document, if the document has it
BasePageOfSlot(n) ==
    LET page_data_list == base_config[1].config_data.page_data
    IN  IF CUSTOM_LED_START_PAGE + n <= Len(page_data_list)
        THEN Some(page_data_list[CUSTOM_LED_START_PAGE + n])
        ELSE None

\* C25: Back at the next-action prompt resets the slot: the current page is
\* the base page of the slot again, the running frame count is that page's
\* frame count, the source list is empty, the next prompt is the initial
\* action prompt of the same slot, and no mapping is stored.
C25_NextActionBackResetsSlot ==
    [][NextActionBack =>
          /\ pc' = "led_action"
          /\ led_num' = led_num
          /\ mappings' = mappings
          /\ current_page' = BasePageOfSlot(led_num)
          /\ current_frames' = (IF BasePageOfSlot(led_num) = None THEN 0
                                ELSE get_frame_count(BasePageOfSlot(led_num)[1]))
          /\ combined_sources' = <<>>
          /\ base_config' = base_config]_vars

\* a source was selected for slot 1 and dropped again by Back: the slot shows
\* the base page and nothing is stored
C25_Witness ==
    /\ pc = "led_action"
    /\ led_num = 1
    /\ selections > 0
    /\ mappings = EmptyDict
    /\ combined_sources = <<>>
    /\ current_page = BasePageOfSlot(1)

\* C26: when the summary step returns back_to_mapping, all stored mappings are
\* cleared and slot configuration starts again at slot 1 on the same base
\* configuration.
C26_BackToMappingClearsMappings ==
    [][ConfirmBackToMapping =>
          /\ mappings' = EmptyDict
          /\ pc' = "led_action"
          /\ led_num' = 1
          /\ base_config' = base_config
          /\ current_page' = BasePageOfSlot(1)
          /\ combined_sources' = <<>>
          /\ result' = None
          /\ written' = written]_vars

\* the summary returned back_to_mapping and slot 1 is asked for again
C26_Witness ==
    /\ summary_result = Some("back_to_mapping")
    /\ pc = "led_action"
    /\ led_num = 1
    /\ mappings = EmptyDict
    /\ selections > 0

\* C27: at the summary step 'cancelled' has the control-flow effect of
\* 'restart': from the same state both lead to the same next workflow state,
\* the session abandoned and run() returned to its caller.
C27_CancelledSameAsRestart ==
    [][ConfirmCancelled =>
          /\ pc' = after_summary(Step, "restart").pc
          /\ result' = after_summary(Step, "restart").result
          /\ pc' = "done"]_vars

\* C28: the loaded base configuration is read-only for the whole session:
\* base_config changes only when a base file is selected, and is then the
\* document loaded from that file; no other step of the workflow (keep,
\* replace, combine, add another, back, back_to_mapping, perform_merge, a
\* repeated perform_merge after a failed save) changes it.
C28_BaseIsReadOnly ==
    [][base_config' # base_config =>
          /\ pc = "select_base"
          /\ base_file' # None
          /\ disk[base_file'[1]].kind \in {"object", "array"}
          /\ base_config' = Some(LEDConfiguration(disk[base_file'[1]].kind,
                                                  disk[base_file'[1]].data))]_vars

\* a.json is the base, a merge that differs from it was made and its save
\* failed, so that perform_merge will run again
C28_Witness ==
    /\ pc = "retry"
    /\ shown = "Failed to save file"
    /\ base_config = Some(LEDConfiguration("object", DocA))
    /\ merged_config # None
    /\ merged_config[1].config_data # DocA

\* the actions a mapping object can be asked to carry: the three of the
\* workflow and one that is none of them
RequestedActions == {"back", "keep", "combined", "replace"}

\* C29: a 'back' mapping is never persisted: every stored mapping has the
\* action 'keep' or 'combined', a Back at the slot prompt leaves the stored
\* mappings as they are, and every mapping object has one of the actions back,
\* keep, combined whatever action it was built with.
C29_BackIsNeverStored ==
    [][/\ \A n \in DOMAIN mappings' : mappings'[n].action \in {"keep", "combined"}
       /\ LedActionBack => mappings' = mappings
       /\ \A a \in RequestedActions :
             LEDMappingResult(a, EmptyDict).action \in {"back", "keep", "combined"}]_vars

\* Back was answered at slot 2 while slot 1 holds a combined mapping and a later
\* slot a mapping stored before: the prompt of slot 1 is open again
C29_Witness ==
    /\ pc = "led_action"
    /\ led_num = 1
    /\ DOMAIN mappings = {1, 2}
    /\ mappings[1].action = "combined"
    /\ mappings[2].action = "keep"

-----------------------------------------------------------------------------
(* A further claim about validate_configuration (SpecValidate) *)

\* the document has the three root keys, page_num 8, 8 page entries and a
\* product_id
StructurallyValid ==
    /\ {"product_info", "page_num", "page_data"} \subseteq DOMAIN config_data
    /\ config_data.page_num = EXPECTED_PAGE_COUNT
    /\ Len(config_data.page_data) = EXPECTED_PAGE_COUNT
    /\ "product_id" \in DOMAIN config_data.product_info

\* the frames of the authoritative list of custom-LED pages that hold an entry
\* that is no #RRGGBB string, as <<page index, frame index>>
BadColourFrames ==
    {pk \in (5..7) \X (0..1) :
        LET page == config_data.page_data[pk[1] + 1]
            key == IF page.frames.valid = 1 THEN "frames" ELSE "keyframes"
        IN  /\ page[key].valid = 1
            /\ pk[2] + 1 \in DOMAIN page[key].frame_data
            /\ \E c \in DOMAIN rgb_values(page[key].frame_data[pk[2] + 1]) :
                  rgb_values(page[key].frame_data[pk[2] + 1])[c] \notin RGB_COLOR_PATTERN}

\* C30: validate_configuration reports a malformed colour wherever it occurs:
\* for a structurally valid document, every frame of the authoritative list of
\* a custom-LED page that holds an entry that is no #RRGGBB string, at any
\* position 0..199, has at least one error naming that page and frame.
C30_BadColourAnywhereReported ==
    (errors # None /\ StructurallyValid) =>
        \A pk \in BadColourFrames :
            \E e \in DOMAIN errors[1] : errors[1][e].path = pk

-----------------------------------------------------------------------------
(* Claims about files and loading (Spec) *)

\* of the files in names, the candidate list holds none that is no JSON and
\* every one that parses as JSON
ListedIffParses(listed, d, names) ==
    \A f \in names :
        /\ d[f].kind = "text" => f \notin listed
        /\ d[f].kind \in {"object", "array"} => f \in listed

\* C31 as stated: whenever the candidates for base or source selection are
\* listed, no file of the source directory that is no valid JSON is in the list
\* and every file of the source directory that parses as JSON is.
C31_EveryParsingFileListed ==
    [][ListsCandidates => ListedIffParses(files', disk', DOMAIN disk')]_vars

\* C31 amended: whenever the candidates for base or source selection are
\* listed, no file that is no valid JSON is in the list, and every file named
\* *.json that parses as JSON is.
C31_EveryParsingJsonFileListed ==
    [][ListsCandidates =>
          /\ ListedIffParses(files', disk', {f \in DOMAIN disk' : HasJsonSuffix(f)})
          /\ \A f \in DOMAIN disk' : disk'[f].kind = "text" => f \notin files']_vars

\* the sources were listed after b.json became text that is no JSON: the list
\* holds the other three files, the JSON array among them
C31_Witness ==
    /\ pc = "source_file"
    /\ disk["b.json"].kind = "text"
    /\ files = {"a.json", "short.json", "list.json"}

\* the names load_configuration is asked for: those of the directory and one
\* the directory never held
AskedNames == DOMAIN disk \cup {"missing.json"}

\* C32: load_configuration reports invalid JSON as an error kind distinct from
\* that of a missing file: a missing file raises the not-found kind, an existing
\* file that is no JSON raises the parse kind, the two kinds differ, and neither
\* outcome returns a configuration.
C32_ParseErrorDistinctFromNotFound ==
    \A f \in AskedNames :
        LET loaded == load_configuration(disk, f)
            missing == f \notin DOMAIN disk \/ disk[f].kind = "absent"
        IN  /\ missing => loaded.raised = "FileNotFoundError" /\ loaded.config = None
            /\ (~missing /\ disk[f].kind = "text") =>
                   /\ loaded.raised = "ValueError"
                   /\ loaded.raised # "FileNotFoundError"
                   /\ loaded.config = None

\* b.json, listed as a source while it was valid, was selected after it became
\* text that is no JSON, and its load failed
C32_Witness ==
    /\ selected_file = Some("b.json")
    /\ disk["b.json"].kind = "text"
    /\ shown = "Failed to load source configuration"
    /\ load_configuration(disk, "b.json").raised = "ValueError"
    /\ load_configuration(disk, "missing.json").raised = "FileNotFoundError"

-----------------------------------------------------------------------------
(* Further claims about combine_pages (SpecCombine) *)

\* a page dict without the frame_data and frame_num of its list `key`
OutsideList(page_value, key) ==
    [page_value EXCEPT ![key].frame_data = <<>>, ![key].frame_num = 0]

\* C33: the page combine_pages returns equals the first input page in every
\* field but the frame_data and frame_num of the authoritative list (the key
\* chosen from the first page, 'frames' if its valid == 1, else 'keyframes'):
\* page_index, valid, the valid flag of that list and the whole other list are
\* those of the first page.
C33_InheritsFromFirstPage ==
    Returned =>
        LET first == call.pre_page_objs[call.pages[1]]
            key == IF first.frames.valid = 1 THEN "frames" ELSE "keyframes"
        IN  OutsideList(PageValue(frame_objs, page_objs[call.combined]), key)
                = OutsideList(PageValue(call.pre_frame_objs, first), key)

\* the second page, stored under 'keyframes' and holding frames in its other
\* list too, was combined with the first page: the result has the second
\* page's index and a longer keyframes list
C33_Witness ==
    /\ Returned
    /\ call.pages = <<2, 1>>
    /\ call.pre_page_objs[2].frames.valid = 0
    /\ call.pre_page_objs[2].frames.frame_data # <<>>
    /\ page_objs[call.combined].page_index = call.pre_page_objs[2].page_index
    /\ page_objs[call.combined].page_index # call.pre_page_objs[1].page_index
    /\ Len(page_objs[call.combined].keyframes.frame_data)
          > Len(call.pre_page_objs[2].keyframes.frame_data)

-----------------------------------------------------------------------------
(* Implicit properties of the workflow (Spec) *)

\* the step runs perform_merge: Proceed at the summary, or a retry after a
\* failed save
RunsPerformMerge == ConfirmProceed \/ RetrySave

\* C34: a mapping built against an earlier base never reaches the merge: Back
\* at slot 1 and Cancelled at the summary leave the stored mappings as they are,
\* yet whenever perform_merge runs, each of mappings[1], mappings[2],
\* mappings[3] exists and was stored after the current base was loaded.
C34_NoStaleMappingMerged ==
    [][/\ (ConfirmCancelled \/ (LedActionBack /\ led_num = 1)) => mappings' = mappings
       /\ RunsPerformMerge => (DOMAIN mappings = 1..3 /\ resolved = 1..3)]_vars

\* a base was loaded while the mappings of an earlier base were stored: slots
\* 1 and 2 are resolved against it, slot 3 still holds the earlier mapping
C34_Witness ==
    /\ pc = "led_action"
    /\ led_num = 3
    /\ DOMAIN mappings = 1..3
    /\ resolved = {1, 2}

\* get_frame_count() of the page of slot n in the current base (0 without page)
BaseFrameCount(n) == frame_count_or_zero(BasePageOfSlot(n))

\* C35: frame budget.  If the base page of a slot has at most MAX_FRAMES
\* frames, the running frame count of the slot stays in 0..MAX_FRAMES whatever
\* was answered at its prompts, and every 'combined' mapping stored for the slot
\* against this base has frame_count <= MAX_FRAMES.
C35_FrameBudget ==
    (base_config # None /\ ~raises_AttributeError(base_config[1])) =>
        /\ (led_num \in 1..3 /\ BaseFrameCount(led_num) <= MAX_FRAMES)
              => current_frames \in 0..MAX_FRAMES
        /\ \A n \in resolved :
              (mappings[n].action = "combined" /\ BaseFrameCount(n) <= MAX_FRAMES)
                  => mappings[n].data.frame_count <= MAX_FRAMES

\* slot 1 was stored as the base page combined with a source that fills the
\* budget exactly
C35_Witness ==
    /\ 1 \in resolved
    /\ mappings[1].action = "combined"
    /\ Len(mappings[1].data.sources) = 2
    /\ BaseFrameCount(1) = LongFrameCount
    /\ mappings[1].data.frame_count = MAX_FRAMES

\* C36: the running frame count is the real count: at every prompt of
\* configure_led_mapping it equals get_frame_count() of the current page of the
\* slot (0 without page), and every stored 'combined' mapping has the
\* frame_count of its page_data and a source list that is not empty.
C36_RunningCountIsReal ==
    /\ (pc \in {"led_action", "next_action", "source_file", "source_led"})
          => current_frames = frame_count_or_zero(current_page)
    /\ \A n \in DOMAIN mappings :
          mappings[n].action = "combined" =>
              /\ mappings[n].data.frame_count = frame_count_or_zero(mappings[n].data.page_data)
              /\ mappings[n].data.sources # <<>>

\* the source descriptions of the stored 'combined' mappings
UsedSources ==
    UNION {{mappings[n].data.sources[i] : i \in DOMAIN mappings[n].data.sources} :
              n \in {k \in DOMAIN mappings : mappings[k].action = "combined"}}

\* the documents of the source files the stored mappings were built from (a
\* source is described by its file and LED)
SourceDocuments ==
    {disk[f].data : f \in {g \in DOMAIN disk : \E led \in 1..3 : <<g, led>> \in UsedSources}}

\* C37: the workflow preserves schema validity: when the base document and
\* every source document used pass validate_configuration with no errors, the
\* document perform_merge produced passes it with no errors.
C37_MergePreservesValidity ==
    (pc \in {"save_method", "confirm_overwrite", "get_filename", "retry"}
        /\ validate_configuration(base_config[1].config_data) = <<>>
        /\ \A d \in SourceDocuments : validate_configuration(d) = <<>>)
            => validate_configuration(merged_config[1].config_data) = <<>>

-----------------------------------------------------------------------------
(* Algebraic claims about combine_pages (SpecCombine) *)

\* the page data of combine_pages([combine_pages([a, b]), c]) on heap H and
\* page objects P
Incremental(H, P, a, b, c) ==
    LET ab == combine_pages(H, P, <<a, b>>)
        abc == combine_pages(ab.frame_objs, ab.page_objs, <<ab.combined, c>>)
    IN  PageValue(abc.frame_objs, abc.page_objs[abc.combined])

\* C38: incremental combination equals one-shot combination: for any pages A,
\* B, C the page data of combine_pages([A, B, C]) is that of
\* combine_pages([combine_pages([A, B]), C]) on the same inputs.
C38_IncrementalEqualsOneShot ==
    (Returned /\ Len(call.pages) = 3) =>
        PageValue(frame_objs, page_objs[call.combined])
            = Incremental(call.pre_frame_objs, call.pre_page_objs,
                          call.pages[1], call.pages[2], call.pages[3])

-----------------------------------------------------------------------------
(* src/cyberboard_merger.py: the monolithic script, which works on the page
   dicts themselves *)

\* CyberboardMerger.combine_led_frames(page_data_list) on heap H and page dicts
\* P; an empty list yields an empty dict
combine_led_frames(H, P, pages) ==
    IF pages = <<>>
    THEN [raised |-> FALSE, frame_objs |-> H, page_objs |-> Append(P, EmptyDict),
          combined |-> Len(P) + 1]
    ELSE
        LET copy == deepcopy(H, P[pages[1]])
            combined == copy.page
            key == IF Get(Get(combined, "frames", EmptyDict), "valid", 0) = 1
                   THEN "frames" ELSE "keyframes"
            combined_frames == Get(combined, key, EmptyDict)
            combined_frame_list ==
                Get(combined_frames, "frame_data", <<>>) \o extend_frames(P, pages, 2)
            new_frames ==
                Put(Put(combined_frames, "frame_data", combined_frame_list),
                    "frame_num", Len(combined_frame_list))
        IN  [raised |-> FALSE,
             frame_objs |-> renumber(copy.frame_objs, combined_frame_list),
             page_objs |-> Append(P, Put(combined, key, new_frames)),
             combined |-> Len(P) + 1]

\* combine_led_frames([current_page_data, source_result['page_data']]) of the
\* monolith's configure_led_mapping, read back as page data
combine_led_frames_two(current, page) ==
    LET objs == AsObjects(<<>>, <<>>, <<current, page>>, 1)
        r == combine_led_frames(objs.frame_objs, objs.page_objs, <<1, 2>>)
    IN  PageValue(r.frame_objs, r.page_objs[r.combined])

\* the loop of the monolith's perform_merge from slot i: the page of a
\* 'combined' mapping is copied into merged_data['page_data'][4 + i] (IndexError
\* when the list is shorter) and stamped (TypeError when there is no page)
RECURSIVE monolith_merge_slots(_, _, _)
monolith_merge_slots(merged_data, maps, i) ==
    IF i > 3 THEN [raised |-> FALSE, config |-> merged_data]
    ELSE IF maps[i].action # "combined" THEN monolith_merge_slots(merged_data, maps, i + 1)
    ELSE
        LET page == maps[i].data.page_data
            target_idx == 4 + i
        IN  IF target_idx >= Len(merged_data.page_data) \/ page = None
            THEN [raised |-> TRUE, config |-> merged_data]
            ELSE monolith_merge_slots(
                     [merged_data EXCEPT !.page_data[target_idx + 1] =
                                            Put(page[1], "page_index", target_idx)],
                     maps, i + 1)

\* CyberboardMerger.perform_merge on a copy of base_data
monolith_perform_merge(base_data, maps) == monolith_merge_slots(base_data, maps, 1)

\* C39: the two implementations agree on combining: the layered combine_pages
\* and the monolithic combine_led_frames give equal page data for the current
\* page of a slot and every source page on offer, and for the same three
\* resolved mappings the layered and the monolithic perform_merge either both
\* fail or return equal documents.
C39_ImplementationsAgree ==
    [][/\ (pc = "source_led" /\ select_for = "add" /\ current_page # None) =>
              \A led_idx \in valid_choices :
                  LET page == get_page(source_config[1].config_data,
                                       CUSTOM_LED_START_PAGE - 1 + led_idx)
                  IN  page # None =>
                          combine_two(current_page[1], page[1])
                              = combine_led_frames_two(current_page[1], page[1])
       /\ RunsPerformMerge =>
              LET layered == perform_merge(base_config[1], mappings)
                  monolith == monolith_perform_merge(base_config[1].config_data, mappings)
              IN  /\ layered.raised = monolith.raised
                  /\ ~layered.raised => layered.config = monolith.config]_vars

====
